---- MODULE Spec2Model ----
(***************************************************************************)
(* Model of the AIChat3D avatar client: the derivation of the avatar       *)
(* state in App, and the three per-frame drivers (VRMAvatar, DefaultAvatar *)
(* and MMDModel) that animate a rig, a fallback shape or a morph target    *)
(* from the audio state and the analyser's frequency data.                 *)
(*                                                                         *)
(* Numbers.  The program computes in IEEE doubles.  The model computes in  *)
(* fixed point: a real v is the integer v * Scale, and every rounding      *)
(* truncates toward zero.  Interpolation factors are given in thousandths. *)
(* The vertical scale of the fallback shape, whose bound a rounding error  *)
(* decides, is kept in binary64 as well, bit for bit.                      *)
(***************************************************************************)
EXTENDS Integers, Sequences, FiniteSets, TLC

\* ------------------------------------------------------------- bounds
\* Decimal digits of the fixed-point representation.
ScaleDigits == 5
\* Frames a behaviour of Spec may run.
MaxFrames == 2
\* Frames a behaviour of SpecDecay may run.
MaxDecayFrames == 24
\* Frames a behaviour of SpecSettle may run.
MaxSettleFrames == 600
\* Frames run on the probing spectra.
MaxLevelFrames == 2
\* Frames run on each partial rig.
MaxRigFrames == 1
\* Messages the user sends.
MaxSends == 3
\* Frames run on the fallback shape, and frames run in a row while nothing
\* plays.
MaxShapeFrames == 156
MaxQuietFrames == 8

\* The interface events and clock ticks explored by SpecInput.
MaxUiEvents == 3
MaxTicks == 3

Scale == 10 ^ ScaleDigits

\* ------------------------------------------------------------ numbers
Abs(v) == IF v < 0 THEN -v ELSE v

\* Division that truncates toward zero (d > 0).
TDiv(n, d) == IF n >= 0 THEN n \div d ELSE -((-n) \div d)

RECURSIVE FixDigits(_, _, _, _)
FixDigits(q, r, den, k) ==
  IF k = 0 THEN q
  ELSE FixDigits(q * 10 + (r * 10) \div den, (r * 10) % den, den, k - 1)

\* The fixed-point value of the quotient num / den (num >= 0, den > 0),
\* by long division, one decimal digit at a time.
Fix(num, den) == FixDigits(num \div den, num % den, den, ScaleDigits)

\* The fixed-point value of a decimal literal given in thousandths.
R(milli) == milli * (Scale \div 1000)

\* A value given in millionths (a table entry), in fixed point.
FromMicro(u) == TDiv(u * (Scale \div 1000), 1000)

\* THREE.MathUtils.lerp(x, y, t), t in thousandths.
lerpOvershoot(x, y, tm) == x + TDiv((y - x) * (1000 + tm), 1000)
lerp(x, y, tm) == x + TDiv((y - x) * tm, 1000)

clampBelow(v) == IF v < 0 THEN 0 ELSE v
\* Math.min(1, Math.max(0, v)).
clamp01(v) == IF v < 0 THEN 0 ELSE IF v > Scale THEN Scale ELSE v

\* Math.sin and Math.cos at the angles (in thousandths of a radian) that the
\* sampled clock values produce, in millionths.
MathSin(a) ==
  CASE a = 0 -> 0
    [] a = 200 -> 198669
    [] a = 800 -> 717356
    [] a = 2000 -> 909297
    [] a = 4800 -> -996165

MathCos(a) ==
  CASE a = 0 -> 1000000
    [] a = 1200 -> 362358

\* state.clock.elapsedTime at the sampled frames, in milliseconds.
Times == {0, 400}

\* --------------------------------------------------- binary64 numbers
\* mesh.scale.y is also kept bit for bit, as the program's Number holds it.
\* A natural number is a sequence of limbs of LimbBits bits, the least
\* significant first and the most significant not 0; << >> is 0.
LimbBits == 14
Limb == 2 ^ LimbBits

RECURSIVE BigOf(_)
BigOf(n) == IF n = 0 THEN << >> ELSE <<n % Limb>> \o BigOf(n \div Limb)

RECURSIVE Trim(_)
Trim(a) ==
  IF a = << >> \/ a[Len(a)] # 0 THEN a ELSE Trim(SubSeq(a, 1, Len(a) - 1))

RECURSIVE BigAddCarry(_, _, _)
BigAddCarry(a, b, c) ==
  IF a = << >> /\ b = << >> THEN BigOf(c)
  ELSE LET x == IF a = << >> THEN 0 ELSE Head(a)
           y == IF b = << >> THEN 0 ELSE Head(b)
           s == x + y + c
       IN <<s % Limb>> \o BigAddCarry(IF a = << >> THEN a ELSE Tail(a),
                                      IF b = << >> THEN b ELSE Tail(b),
                                      s \div Limb)
BigAdd(a, b) == BigAddCarry(a, b, 0)

RECURSIVE BigSubBorrow(_, _, _)
\* a - b - c, for a >= b + c.
BigSubBorrow(a, b, c) ==
  IF a = << >> THEN << >>
  ELSE LET y == IF b = << >> THEN 0 ELSE Head(b)
           d == Head(a) - y - c
       IN <<(d + Limb) % Limb>>
            \o BigSubBorrow(Tail(a), IF b = << >> THEN b ELSE Tail(b),
                            IF d < 0 THEN 1 ELSE 0)
BigSub(a, b) == Trim(BigSubBorrow(a, b, 0))

RECURSIVE BigMulLimb(_, _, _)
\* a * d + c, for one limb d > 0.
BigMulLimb(a, d, c) ==
  IF a = << >> THEN BigOf(c)
  ELSE LET s == Head(a) * d + c
       IN <<s % Limb>> \o BigMulLimb(Tail(a), d, s \div Limb)

\* The product of two mantissas, of four limbs each, column by column.
MantissaMul(a, b) ==
  LET s1 == a[1] * b[1]
      s2 == a[1] * b[2] + a[2] * b[1] + s1 \div Limb
      s3 == a[1] * b[3] + a[2] * b[2] + a[3] * b[1] + s2 \div Limb
      s4 == a[1] * b[4] + a[2] * b[3] + a[3] * b[2] + a[4] * b[1]
              + s3 \div Limb
      s5 == a[2] * b[4] + a[3] * b[3] + a[4] * b[2] + s4 \div Limb
      s6 == a[3] * b[4] + a[4] * b[3] + s5 \div Limb
      s7 == a[4] * b[4] + s6 \div Limb
  IN << s1 % Limb, s2 % Limb, s3 % Limb, s4 % Limb, s5 % Limb, s6 % Limb,
        s7 % Limb, s7 \div Limb >>

RECURSIVE BigDivFrom(_, _, _, _)
\* Short division of the limbs i .. 1 of a by d, rem carried in from above.
BigDivFrom(a, i, d, rem) ==
  IF i = 0 THEN [q |-> << >>, r |-> rem]
  ELSE LET cur == rem * Limb + a[i]
           rest == BigDivFrom(a, i - 1, d, cur % d)
       IN [q |-> Append(rest.q, cur \div d), r |-> rest.r]
\* Quotient and remainder of a by d, 0 < d < Limb.
BigDiv(a, d) ==
  LET x == BigDivFrom(a, Len(a), d, 0) IN [q |-> Trim(x.q), r |-> x.r]

RECURSIVE Bits(_)
Bits(n) == IF n = 0 THEN 0 ELSE 1 + Bits(n \div 2)
BitLen(a) ==
  IF a = << >> THEN 0 ELSE LimbBits * (Len(a) - 1) + Bits(a[Len(a)])

\* a * 2^n, floor(a / 2^n) and a mod 2^n.
BigShl(a, n) ==
  IF a = << >> \/ n = 0 THEN a
  ELSE [i \in 1 .. (n \div LimbBits) |-> 0]
         \o BigMulLimb(a, 2 ^ (n % LimbBits), 0)
BigShr(a, n) ==
  IF n \div LimbBits >= Len(a) THEN << >>
  ELSE BigDiv(SubSeq(a, n \div LimbBits + 1, Len(a)), 2 ^ (n % LimbBits)).q
BigLow(a, n) ==
  IF n \div LimbBits >= Len(a) THEN a
  ELSE Trim(Append(SubSeq(a, 1, n \div LimbBits),
                   a[n \div LimbBits + 1] % (2 ^ (n % LimbBits))))

RECURSIVE BigCmpFrom(_, _, _)
BigCmpFrom(a, b, i) ==
  IF i = 0 THEN 0
  ELSE IF a[i] # b[i] THEN (IF a[i] < b[i] THEN -1 ELSE 1)
  ELSE BigCmpFrom(a, b, i - 1)
\* -1, 0 or 1 as a is below, equal to or above b.
BigCmp(a, b) ==
  IF Len(a) # Len(b) THEN (IF Len(a) < Len(b) THEN -1 ELSE 1)
  ELSE BigCmpFrom(a, b, Len(a))

\* A double that is 0 or positive and normal: m * 2^e with 2^52 <= m < 2^53,
\* and m = << >> for 0.
Double(m, e) == [m |-> m, e |-> e]

\* The double nearest to m * 2^e, ties to the even mantissa.
RoundToNearestEven(m, e) ==
  LET len == BitLen(m)
      s == len - 53
      q == BigShr(m, s)
      c == BigCmp(BigLow(m, s), BigShl(<<1>>, s - 1))
      up == c > 0 \/ (c = 0 /\ q[1] % 2 = 1)
      q1 == IF up THEN BigAdd(q, <<1>>) ELSE q
  IN IF len = 0 THEN Double(<< >>, 0)
     ELSE IF len <= 53 THEN Double(BigShl(m, 53 - len), e - (53 - len))
     ELSE IF BitLen(q1) = 54 THEN Double(BigShr(q1, 1), e + s + 1)
     ELSE Double(q1, e + s)

\* The double of a small natural number.
DoubleOf(n) == RoundToNearestEven(BigOf(n), 0)

\* -1, 0 or 1 as a is below, equal to or above b.
DoubleCmp(a, b) ==
  IF a.m = << >> \/ b.m = << >>
    THEN (IF a.m = b.m THEN 0 ELSE IF a.m = << >> THEN -1 ELSE 1)
  ELSE IF a.e # b.e THEN (IF a.e < b.e THEN -1 ELSE 1)
  ELSE BigCmp(a.m, b.m)

\* a + b, a - b (for a >= b), a * b, and a / d for a natural d below Limb.
DoubleAdd(a, b) ==
  LET e == IF a.e < b.e THEN a.e ELSE b.e
  IN IF a.m = << >> THEN b
     ELSE IF b.m = << >> THEN a
     ELSE RoundToNearestEven(BigAdd(BigShl(a.m, a.e - e),
                                    BigShl(b.m, b.e - e)), e)
DoubleSub(a, b) ==
  LET e == IF a.e < b.e THEN a.e ELSE b.e
  IN IF b.m = << >> THEN a
     ELSE RoundToNearestEven(BigSub(BigShl(a.m, a.e - e),
                                    BigShl(b.m, b.e - e)), e)
DoubleMul(a, b) ==
  IF a.m = << >> \/ b.m = << >> THEN Double(<< >>, 0)
  ELSE RoundToNearestEven(MantissaMul(a.m, b.m), a.e + b.e)
DoubleDiv(a, d) ==
  LET x == BigDiv(BigShl(a.m, 2 * LimbBits), d)
      sticky == IF x.r = 0 THEN 0 ELSE 1
  IN RoundToNearestEven(BigMulLimb(x.q, 2, sticky), a.e - 2 * LimbBits - 1)

\* Math.min(a, b)
MathMin(a, b) == IF DoubleCmp(a, b) <= 0 THEN a ELSE b

\* A decimal literal with one digit after the point, tenths / 10.
Literal(tenths) == DoubleDiv(DoubleOf(tenths), 10)

One == DoubleOf(1)

\* THREE.MathUtils.lerp(x, y, t) = (1 - t) * x + t * y, in doubles.
lerpDouble(x, y, t) ==
  DoubleAdd(DoubleMul(DoubleSub(One, t), x), DoubleMul(t, y))

\* ------------------------------------------------------------- audio
\* analyser.frequencyBinCount: half of fftSize.
fftSize == 256
frequencyBinCount == fftSize \div 2
Bins == 0 .. (frequencyBinCount - 1)

\* A frame of byte frequency data: level a below bin k, level b from k on.
Step(a, k, b) == [i \in Bins |-> IF i < k THEN a ELSE b]
Levels == {0, 40, 255}
Silence == Step(0, 0, 0)
\* The frames the analyser delivers: all 0, all 255, loud below bin 30 only,
\* loud from bin 30 on only, and quiet below bin 50 with the rest loud.
Spectra == {Step(0, 0, 0), Step(255, 0, 255), Step(255, 30, 0),
            Step(0, 30, 255), Step(40, 50, 255)}

RECURSIVE SumBins(_, _, _)
\* for (let i = startBin; i < endBin; i++) sum += dataArray[i]
SumBins(data, i, endBin) ==
  IF i >= endBin THEN 0 ELSE data[i] + SumBins(data, i + 1, endBin)

\* -------------------------------------------------------------- state
VARIABLES
  isProcessing,    \* App: a request is in flight
  isUserTyping,    \* App: the user is typing
  audioState,      \* App: [isPlaying, analyser] (analyser: the tap exists)
  avatarState,     \* the avatarState prop of the last render
  mounted,         \* the driver that is mounted: "vrm", "default" or "mmd"
  elapsedTime,     \* state.clock.elapsedTime of the last frame, in ms
  humanoid,        \* VRM: the joints for which getRawBoneNode returns a node
  expressionManager, \* VRM: the rig has an expression manager
  rotation,        \* VRM: joint -> <<x, y, z>>
  aa,              \* VRM: weight of the expression 'aa' (mouth open)
  blink,           \* VRM: weight of the expression 'blink'
  scale,           \* fallback shape: <<x, y, z>>
  scaleY,          \* fallback shape: scale.y as the double it is
  color,           \* fallback shape: material colour <<r, g, b>>
  positionY,       \* fallback shape: position.y
  rotationY,       \* fallback shape: rotation.y
  morphIndex,      \* MMD: index of the mouth morph target, or "null"
  influence,       \* MMD: morphTargetInfluences[morphIndex]
  frames,          \* frames run so far
  silentFrames,    \* consecutive frames run with isPlaying false
  prev,            \* the driver's values before the last frame
  last,            \* what the last frame read and computed
  audioContextRef, \* App: audioContextRef and analyserRef hold their objects
  sourceRef,       \* App: the source in sourceRef.current, 0 for null
  sources,         \* each buffer source: "none", "playing", "ending" (it
                   \* finished or was stopped, 'ended' not yet dispatched)
                   \* or "ended"
  pc,              \* each call of handleSendMessage: "none", the await
                   \* it is at, or the way it returned
  sends,           \* calls of handleSendMessage so far
  messages,        \* App: the transcript
  prompts,         \* each call's text argument
  requests,        \* each call's request to the text provider
  provider,        \* the text provider: "gemini" or "openai"
  input,           \* ChatInterface: the input field, a sequence of characters
  typingTimeoutRef, \* ChatInterface: the timer id in the ref, 0 for null
  timers,          \* the pending timeouts: [id, due, kind]
  nextTimer,       \* the id the next setTimeout returns
  now,             \* the time, in units of TimeUnit ms
  modelUrl,        \* App: 0 for the bundled model, k for the k-th blob URL
  modelStatus,     \* App: "READY" or "LOADING"
  vrmUrl,          \* VRMAvatar: the URL whose file the rig in use came from
  uiLast,          \* the last event of the interface: [n, event, files]
  changedAt        \* the time of the input change whose timer is due, or -1

vars == <<isProcessing, isUserTyping, audioState, avatarState, mounted,
          elapsedTime, humanoid, expressionManager, rotation, aa, blink,
          scale, scaleY, color, positionY, rotationY, morphIndex, influence,
          frames, silentFrames, prev, last, audioContextRef, sourceRef,
          sources, pc, sends, messages, prompts, requests, provider,
          input, typingTimeoutRef, timers, nextTimer, now, modelUrl,
          modelStatus, vrmUrl, uiLast, changedAt>>

chatVars == <<audioContextRef, sourceRef, sources, pc, sends, messages,
              prompts, requests, provider>>
uiVars == <<input, typingTimeoutRef, timers, nextTimer, now, modelUrl,
            modelStatus, vrmUrl, uiLast, changedAt>>
appVars == <<isProcessing, isUserTyping, audioState, avatarState, chatVars,
             uiVars>>
vrmVars == <<rotation, aa, blink>>
shapeVars == <<scale, scaleY, color, positionY, rotationY>>
rigConfig == <<mounted, humanoid, expressionManager, morphIndex>>

\* ---------------------------------------------------------------- App
getAvatarStateTypingFirst(playing, processing, typing) ==
  IF typing THEN "typing"
  ELSE IF playing THEN "speaking"
  ELSE IF processing THEN "thinking"
  ELSE "idle"

\* getAvatarState, of the three state values it reads.
getAvatarState(playing, processing, typing) ==
  IF playing THEN "speaking"
  ELSE IF processing THEN "thinking"
  ELSE IF typing THEN "typing"
  ELSE "idle"

\* A state change re-renders App, which passes getAvatarState() to Scene.
Render(as, processing, typing) ==
  /\ audioState' = as
  /\ isProcessing' = processing
  /\ isUserTyping' = typing
  /\ avatarState' = getAvatarState(as.isPlaying, processing, typing)
  /\ UNCHANGED <<mounted, elapsedTime, humanoid, expressionManager, rotation,
                 aa, blink, scale, scaleY, color, positionY, rotationY,
                 morphIndex, influence, frames, silentFrames, prev, last>>

\* The audio states App produces: playAudio sets isPlaying only once the
\* analyser exists.
AudioStates ==
  {as \in [isPlaying : BOOLEAN, analyser : BOOLEAN] :
     as.isPlaying => as.analyser}

\* setAudioState: the audioState the drivers receive. The analyser, once
\* stored, is never removed.
SetAudioStateTo(as) ==
  /\ audioState # as
  /\ audioState.analyser => as.analyser
  /\ Render(as, isProcessing, isUserTyping)
  /\ UNCHANGED <<chatVars, uiVars>>

SetAudioState == \E as \in AudioStates : SetAudioStateTo(as)

\* setIsProcessing
SetIsProcessing ==
  \E v \in BOOLEAN :
    /\ v # isProcessing
    /\ Render(audioState, v, isUserTyping)
    /\ UNCHANGED <<chatVars, uiVars>>

\* setIsUserTyping (onUserTyping)
SetIsUserTyping ==
  \E v \in BOOLEAN :
    /\ v # isUserTyping
    /\ Render(audioState, isProcessing, v)
    /\ UNCHANGED <<chatVars, uiVars>>

\* initAudioContext, on the first interaction: the analyser is created and
\* stored in audioState.
InitAudioContext ==
  /\ ~audioContextRef
  /\ audioContextRef' = TRUE
  /\ Render([audioState EXCEPT !.analyser = TRUE], isProcessing, isUserTyping)
  /\ UNCHANGED <<sourceRef, sources, pc, sends, messages, prompts, requests,
                 provider, uiVars>>

\* --------------------------------------------- App: the chat flow
SourceIds == 1..MaxSends

\* What the user types and sends.
Texts == {"a", "b"}

Message(role, text) == [role |-> role, text |-> text]

\* handleSendMessage is at an await, or has returned (by which way), or
\* has not been called.
InFlight == {"text", "speech", "decode"}
Returned == {"played", "noContext", "textFailed", "speechFailed",
             "decodeFailed"}

NoRequest == [history |-> << >>, sent |-> << >>]

\* The refs and the transcript after construction; the text provider is
\* the one the build imports.
ChatInit ==
  /\ audioContextRef = FALSE
  /\ sourceRef = 0
  /\ sources = [i \in SourceIds |-> "none"]
  /\ pc = [i \in SourceIds |-> "none"]
  /\ sends = 0
  /\ messages = << >>
  /\ prompts = [i \in SourceIds |-> ""]
  /\ requests = [i \in SourceIds |-> NoRequest]
  /\ provider \in {"gemini", "openai"}
  /\ input = << >>
  /\ typingTimeoutRef = 0
  /\ timers = {}
  /\ nextTimer = 1
  /\ now = 0
  /\ modelUrl = 0
  /\ modelStatus = "READY"
  /\ vrmUrl = 0
  /\ uiLast = [n |-> 0, event |-> "none", files |-> << >>]
  /\ changedAt = -1

RECURSIVE MapRole(_, _)
\* messages.map(m => ({ role: ..., content: m.text })): the Gemini client
\* keeps 'user' | 'model', the OpenAI request renames 'model' to
\* 'assistant'.
MapRole(msgs, modelRole) ==
  IF msgs = << >> THEN << >>
  ELSE << Message(IF Head(msgs).role = "model" THEN modelRole ELSE "user",
                  Head(msgs).text) >>
         \o MapRole(Tail(msgs), modelRole)

\* generateTextResponse (Gemini): the chat is created with the messages but
\* the last as its history, and the prompt is sent as the new message.
geminiRequest(msgs, prompt) ==
  [history |-> MapRole(SubSeq(msgs, 1, Len(msgs) - 1), "model"),
   sent |-> << Message("user", prompt) >>]

\* generateTextResponse (OpenAI): every message is mapped, the prompt is
\* pushed after them, and the system message goes first.
openaiRequest(msgs, userPrompt) ==
  [history |-> << Message("system", "instruction") >>
                 \o MapRole(msgs, "assistant"),
   sent |-> << Message("user", userPrompt) >>]

\* The request generateTextResponse builds for the provider in use.
textRequest(msgs, prompt) ==
  IF provider = "gemini" THEN geminiRequest(msgs, prompt)
  ELSE openaiRequest(msgs, prompt)

FinallyKeep(i, as) ==
  /\ Render(as, isProcessing, isUserTyping)
\* The finally block of handleSendMessage: setIsProcessing(false).
Finally(i, as) ==
  /\ Render(as, FALSE, isUserTyping)

\* A thrown Error with its message, and the Errors the services reject
\* with: a failed fetch or an HTTP error without a message of its own.
Error(message) == [isError |-> TRUE, message |-> message]
TextErrors == {Error("Failed to fetch"), Error("OpenAI API Error")}
SpeechErrors == {Error("Failed to fetch"), Error("ElevenLabs API Error")}

\* The text of the message the catch block builds.
errorMessage(error) ==
  IF error.isError
    THEN "Sorry, I encountered an error." \o " " \o error.message
    ELSE "Sorry, I encountered an error."

catchChatErrorReplace(msgs, error) ==
  SubSeq(msgs, 1, Len(msgs) - 1)
    \o << Message("model", errorMessage(error)) >>
\* The catch block of handleSendMessage: the error message is appended.
catchChatError(msgs, error) ==
  Append(msgs, Message("model", errorMessage(error)))

\* A rejected await of handleSendMessage: its catch block, then its
\* finally block.
Rejected(i, way, error) ==
  /\ messages' = catchChatError(messages, error)
  /\ pc' = [pc EXCEPT ![i] = way]
  /\ Finally(i, audioState)
  /\ UNCHANGED <<audioContextRef, sourceRef, sources, sends, prompts,
                 requests, provider, uiVars>>

\* handleSendMessage(text) up to its first await: initAudioContext,
\* setIsProcessing(true), the user's message appended to the messages of
\* the render, and generateTextResponse(newMessages, text) building its
\* request.
SendMessage(text, typing) ==
  LET i == sends + 1
      newMessages == Append(messages, Message("user", text))
  IN /\ sends < MaxSends
     /\ sends' = i
     /\ audioContextRef' = TRUE
     /\ messages' = newMessages
     /\ prompts' = [prompts EXCEPT ![i] = text]
     /\ requests' = [requests EXCEPT ![i] = textRequest(newMessages, text)]
     /\ pc' = [pc EXCEPT ![i] = "text"]
     /\ Render([audioState EXCEPT !.analyser = TRUE], TRUE, typing)
     /\ UNCHANGED <<sourceRef, sources, provider>>

\* handleSubmit passes the input on unless a request is in flight, after
\* onUserTyping(false), and handleSendMessage runs up to its first await.
HandleSendMessage ==
  /\ ~isProcessing
  /\ \E text \in Texts : SendMessage(text, FALSE)
  /\ UNCHANGED uiVars

\* generateTextResponse resolved: the reply is appended and generateSpeech
\* is awaited.
TextResolved ==
  \E i \in SourceIds :
    /\ pc[i] = "text"
    /\ messages' = Append(messages, Message("model", "responseText"))
    /\ pc' = [pc EXCEPT ![i] = "speech"]
    /\ UNCHANGED <<isProcessing, isUserTyping, audioState, avatarState,
                   audioContextRef, sourceRef, sources, sends, prompts,
                   requests, provider, uiVars>>
    /\ UNCHANGED <<rigConfig, elapsedTime, vrmVars, shapeVars, influence,
                   frames, silentFrames, prev, last>>

\* generateTextResponse rejected.
TextRejected ==
  \E i \in SourceIds :
    /\ pc[i] = "text"
    /\ \E error \in TextErrors : Rejected(i, "textFailed", error)

\* source.stop() on the source in sourceRef.current: a playing source stops
\* and its 'ended' event is pending; on any other source the call changes
\* nothing (its exception is swallowed).
stopPrevious(srcs, ref) ==
  IF ref # 0 /\ srcs[ref] = "playing"
  THEN [srcs EXCEPT ![ref] = "ending"]
  ELSE srcs

\* generateSpeech resolved and playAudio runs up to its await of
\* decodeAudioData; without a context or an analyser it returns at once.
SpeechResolved ==
  \E i \in SourceIds :
    /\ pc[i] = "speech"
    /\ IF ~audioContextRef
       THEN /\ pc' = [pc EXCEPT ![i] = "noContext"]
            /\ Finally(i, audioState)
            /\ UNCHANGED <<audioContextRef, sourceRef, sources, sends,
                           messages, prompts, requests, provider, uiVars>>
       ELSE /\ sources' = stopPrevious(sources, sourceRef)
            /\ pc' = [pc EXCEPT ![i] = "decode"]
            /\ UNCHANGED <<isProcessing, isUserTyping, audioState, avatarState,
                           audioContextRef, sourceRef, sends, messages,
                           prompts, requests, provider, uiVars>>
            /\ UNCHANGED <<rigConfig, elapsedTime, vrmVars, shapeVars,
                           influence, frames, silentFrames, prev, last>>

\* generateSpeech rejected.
SpeechRejected ==
  \E i \in SourceIds :
    /\ pc[i] = "speech"
    /\ \E error \in SpeechErrors : Rejected(i, "speechFailed", error)

\* decodeAudioData resolved: the new source is stored in sourceRef, started,
\* and isPlaying set; playAudio returns and the finally block runs.
DecodeResolved ==
  \E i \in SourceIds :
    /\ pc[i] = "decode"
    /\ sourceRef' = i
    /\ sources' = [sources EXCEPT ![i] = "playing"]
    /\ pc' = [pc EXCEPT ![i] = "played"]
    /\ Finally(i, [audioState EXCEPT !.isPlaying = TRUE])
    /\ UNCHANGED <<audioContextRef, sends, messages, prompts, requests,
                   provider, uiVars>>

\* decodeAudioData rejected: playAudio's own catch appends its message and
\* playAudio returns normally.
DecodeRejected ==
  \E i \in SourceIds :
    /\ pc[i] = "decode"
    /\ messages' = Append(messages,
                          Message("model", "(Audio playback failed: Check API Key or format)"))
    /\ pc' = [pc EXCEPT ![i] = "decodeFailed"]
    /\ Finally(i, audioState)
    /\ UNCHANGED <<audioContextRef, sourceRef, sources, sends, prompts,
                   requests, provider, uiVars>>

\* A playing source reaches the end of its buffer.
SourceFinishes ==
  \E id \in SourceIds :
    /\ sources[id] = "playing"
    /\ sources' = [sources EXCEPT ![id] = "ending"]
    /\ UNCHANGED <<isProcessing, isUserTyping, audioState, avatarState,
                   audioContextRef, sourceRef, pc, sends, messages, prompts,
                   requests, provider, uiVars>>
    /\ UNCHANGED <<rigConfig, elapsedTime, vrmVars, shapeVars, influence,
                   frames, silentFrames, prev, last>>

\* source.onended: setAudioState(prev => ({ ...prev, isPlaying: false })).
onended(id, as) == [as EXCEPT !.isPlaying = FALSE]

\* The 'ended' event of a source that finished or was stopped is dispatched.
OnEnded ==
  \E id \in SourceIds :
    /\ sources[id] = "ending"
    /\ sources' = [sources EXCEPT ![id] = "ended"]
    /\ Render(onended(id, audioState), isProcessing, isUserTyping)
    /\ UNCHANGED <<audioContextRef, sourceRef, pc, sends, messages, prompts,
                   requests, provider, uiVars>>

\* ------------------------------------------- ChatInterface: the input

\* The delays of the two timeouts, in milliseconds.
TypingDelay == 1000
ReadyDelay == 1000

\* The last instant of the clock.
MaxTime == MaxTicks * (TypingDelay \div 2)

\* The values of the input field: empty, blank, a word, a word and a blank.
Inputs == {<< >>, <<" ">>, <<"a">>, <<"a", " ">>}

\* The names of the files the user may pick.
FileNames ==
  { <<"a", ".", "v", "r", "m">>,
    <<"a", ".", "V", "R", "M">>,
    <<"v", "r", "m">>,
    <<"a", ".", "v", "r", "m", "x">> }

\* e.target.files: no file, or one file.
FileLists == {<< >>} \cup {<<[name |-> f]>> : f \in FileNames}

RECURSIVE trimStart(_)
trimStart(str) ==
  IF str # << >> /\ Head(str) = " " THEN trimStart(Tail(str)) ELSE str

RECURSIVE trimEnd(_)
trimEnd(str) ==
  IF str # << >> /\ str[Len(str)] = " "
    THEN trimEnd(SubSeq(str, 1, Len(str) - 1))
    ELSE str

\* String.prototype.trim
trim(str) == trimEnd(trimStart(str))

\* String.prototype.endsWith
endsWith(str, suffix) ==
  /\ Len(suffix) <= Len(str)
  /\ SubSeq(str, Len(str) - Len(suffix) + 1, Len(str)) = suffix

\* window.setTimeout: one more pending timeout.
setTimeout(pending, id, delay, kind) ==
  pending \cup {[id |-> id, due |-> now + delay, kind |-> kind]}

\* clearTimeout that cancels nothing.
clearTimeoutNone(pending, id) == pending

\* clearTimeout: no effect when the id names no pending timeout.
clearTimeout(pending, id) == {t \in pending : t.id # id}

\* The event counted as the next one of the interface.
Event(name) == [n |-> uiLast.n + 1, event |-> name, files |-> << >>]

\* handleInputChange; the field is disabled while a call is processed.
HandleInputChange ==
  /\ uiLast.n < MaxUiEvents
  /\ now + TypingDelay <= MaxTime
  /\ ~isProcessing
  /\ \E value \in Inputs :
       /\ value # input
       /\ input' = value
  /\ Render(audioState, isProcessing, TRUE)
  /\ timers' = setTimeout(clearTimeout(timers, typingTimeoutRef), nextTimer,
                          TypingDelay, "typing")
  /\ typingTimeoutRef' = nextTimer
  /\ nextTimer' = nextTimer + 1
  /\ changedAt' = now
  /\ uiLast' = Event("change")
  /\ UNCHANGED <<chatVars, now, modelUrl, modelStatus, vrmUrl>>

\* The condition of handleSubmit, with every submit accepted while idle.
canSubmitBlank(str, processing) == ~processing

\* The condition of handleSubmit.
canSubmit(str, processing) == trim(str) # << >> /\ ~processing

\* handleSubmit, on any submit event of the form.
HandleSubmit ==
  /\ uiLast.n < MaxUiEvents
  /\ IF canSubmit(input, isProcessing)
       THEN /\ timers' = clearTimeout(timers, typingTimeoutRef)
            /\ SendMessage(input, FALSE)
            /\ input' = << >>
            /\ changedAt' = -1
            /\ uiLast' = Event("submit")
            /\ UNCHANGED <<typingTimeoutRef, nextTimer, now, modelUrl,
                           modelStatus, vrmUrl>>
       ELSE /\ uiLast' = Event("submitRejected")
            /\ Render(audioState, isProcessing, isUserTyping)
            /\ UNCHANGED <<chatVars, input, typingTimeoutRef, timers,
                           nextTimer, now, modelUrl, modelStatus, vrmUrl,
                           changedAt>>

\* The timeout of handleInputChange fires: onUserTyping(false).
TypingTimerFires ==
  \E t \in timers :
    /\ t.kind = "typing"
    /\ t.due = now
    /\ timers' = timers \ {t}
    /\ Render(audioState, isProcessing, FALSE)
    /\ uiLast' = [uiLast EXCEPT !.event = "typingTimer"]
    /\ UNCHANGED <<chatVars, input, typingTimeoutRef, nextTimer, now,
                   modelUrl, modelStatus, vrmUrl, changedAt>>

\* The timeout of handleModelUpload fires: setModelStatus(READY).
ReadyTimerFires ==
  \E t \in timers :
    /\ t.kind = "ready"
    /\ t.due = now
    /\ timers' = timers \ {t}
    /\ modelStatus' = "READY"
    /\ uiLast' = [uiLast EXCEPT !.event = "readyTimer"]
    /\ Render(audioState, isProcessing, isUserTyping)
    /\ UNCHANGED <<chatVars, input, typingTimeoutRef, nextTimer, now,
                   modelUrl, vrmUrl, changedAt>>

\* Half a delay passes; every timeout due by now has fired.
Tick ==
  /\ now < MaxTime
  /\ \A t \in timers : t.due > now
  /\ now' = now + TypingDelay \div 2
  /\ Render(audioState, isProcessing, isUserTyping)
  /\ UNCHANGED <<chatVars, input, typingTimeoutRef, timers, nextTimer,
                 modelUrl, modelStatus, vrmUrl, uiLast, changedAt>>

\* ---------------------------------------------- VRMAvatar: the pose
Joints == {"Head", "Neck", "Spine", "Hips",
           "LeftUpperArm", "LeftLowerArm", "LeftHand",
           "RightUpperArm", "RightLowerArm", "RightHand"}

\* The rest pose: the rotation of every raw bone while the normalized rig,
\* which nothing writes, is at its identity.
ZeroPose == [j \in Joints |-> <<0, 0, 0>>]

\* vrm.update that leaves the raw bones as the last frame wrote them.
vrmUpdateKeep(rot, nodes) == rot

\* vrm.update(delta): humanoid.update() copies the pose of the normalized
\* rig onto the raw bones, so every node of the rig is back at rest when
\* the calls of the frame read it.
vrmUpdate(rot, nodes) ==
  [j \in Joints |-> IF j \in nodes THEN ZeroPose[j] ELSE rot[j]]

\* The waveforms of the speaking and idle branches (t in ms).
headBob(t) == TDiv(FromMicro(MathSin(t * 12)) * 8, 100)
headSway(t) == TDiv(FromMicro(MathCos(t * 3)), 10)
armGesture(t) == TDiv(FromMicro(MathSin(t * 5)) * 2, 10)
breathe(t) == TDiv(FromMicro(MathSin(t * 2)) * 4, 100)
drift(t) == TDiv(FromMicro(MathSin(t \div 2)) * 2, 100)
Half(v) == TDiv(v, 2)

\* A call rotateBone(boneName, x, y, z, speed).
Call(boneName, x, y, z, speed) ==
  [bone |-> boneName, x |-> x, y |-> y, z |-> z, speed |-> speed]

\* The calls of the branch avatarState === 'thinking', in order.
thinkingCallsArmLow ==
  << Call("Head", R(100), R(300), R(-100), 50),
     Call("Neck", 0, R(100), 0, 50),
     Call("Spine", R(50), 0, 0, 50),
     Call("LeftUpperArm", 0, 0, R(800), 50),
     Call("LeftLowerArm", 0, R(1400), 0, 50),
     Call("LeftHand", 0, R(-500), R(500), 50),
     Call("RightUpperArm", R(-500), R(-600), R(-800), 50),
     Call("RightLowerArm", 0, R(-2000), 0, 50),
     Call("RightHand", 0, 0, 0, 50) >>
thinkingCallsNoHand ==
  << Call("Head", R(100), R(300), R(-100), 50),
     Call("Neck", 0, R(100), 0, 50),
     Call("Spine", R(50), 0, 0, 50),
     Call("LeftUpperArm", 0, 0, R(900), 50),
     Call("LeftLowerArm", 0, R(1400), 0, 50),
     Call("LeftHand", 0, R(-500), R(500), 50),
     Call("RightUpperArm", R(-500), R(-600), R(-800), 50),
     Call("RightLowerArm", 0, R(-2000), 0, 50) >>
thinkingCalls ==
  << Call("Head", R(100), R(300), R(-100), 50),
     Call("Neck", 0, R(100), 0, 50),
     Call("Spine", R(50), 0, 0, 50),
     Call("LeftUpperArm", 0, 0, R(900), 50),
     Call("LeftLowerArm", 0, R(1400), 0, 50),
     Call("LeftHand", 0, R(-500), R(500), 50),
     Call("RightUpperArm", R(-500), R(-600), R(-800), 50),
     Call("RightLowerArm", 0, R(-2000), 0, 50),
     Call("RightHand", 0, 0, 0, 50) >>

\* The calls of the branch avatarState === 'typing'.
typingCalls ==
  << Call("Head", R(300), 0, 0, 100),
     Call("Neck", R(200), 0, 0, 100),
     Call("Spine", R(200), 0, 0, 100),
     Call("LeftUpperArm", R(200), R(200), R(1200), 100),
     Call("LeftLowerArm", 0, R(1500), 0, 100),
     Call("RightUpperArm", R(200), R(-200), R(-1200), 100),
     Call("RightLowerArm", 0, R(-1500), 0, 100) >>

\* The calls of the branch avatarState === 'speaking'.
speakingCalls(t) ==
  << Call("Head", headBob(t), headSway(t), 0, 100),
     Call("Neck", 0, Half(headSway(t)), 0, 100),
     Call("Spine", R(50), 0, 0, 50),
     Call("LeftUpperArm", 0, 0, R(900), 50),
     Call("LeftLowerArm", 0, R(1400), 0, 50),
     Call("RightUpperArm", 0, 0, R(-1100) - armGesture(t), 50),
     Call("RightLowerArm", 0, R(-800) - Half(armGesture(t)), 0, 50) >>

\* The calls of the else branch (idle).
idleCalls(t) ==
  << Call("Head", 0, Half(drift(t)), 0, 20),
     Call("Neck", 0, 0, 0, 20),
     Call("Spine", breathe(t), 0, drift(t), 20),
     Call("Hips", 0, 0, Half(drift(t)), 20),
     Call("LeftUpperArm", 0, 0, R(900), 50),
     Call("LeftLowerArm", 0, R(1400), 0, 50),
     Call("LeftHand", R(200), R(-200), R(500), 50),
     Call("RightUpperArm", 0, 0, R(-900), 50),
     Call("RightLowerArm", 0, R(-1400), 0, 50),
     Call("RightHand", R(200), R(200), R(-500), 50) >>

\* The if / else-if chain on avatarState.
poseCalls(state, t) ==
  IF state = "thinking" THEN thinkingCalls
  ELSE IF state = "typing" THEN typingCalls
  ELSE IF state = "speaking" THEN speakingCalls(t)
  ELSE idleCalls(t)

rotateBoneAssign(rot, nodes, c) ==
  IF c.bone \in nodes
  THEN [rot EXCEPT ![c.bone] = <<c.x, c.y, c.z>>]
  ELSE rot
rotateBoneUnguarded(rot, nodes, c) ==
  [rot EXCEPT ![c.bone] = << lerp(@[1], c.x, c.speed),
                             lerp(@[2], c.y, c.speed),
                             lerp(@[3], c.z, c.speed) >>]
rotateBoneOvershoot(rot, nodes, c) ==
  IF c.bone \in nodes
  THEN [rot EXCEPT ![c.bone] = << lerpOvershoot(@[1], c.x, c.speed),
                                  lerpOvershoot(@[2], c.y, c.speed),
                                  lerpOvershoot(@[3], c.z, c.speed) >>]
  ELSE rot
\* rotateBone: the node of the bone, if the rig has one, moves toward
\* (x, y, z) by lerp, axis by axis.
rotateBone(rot, nodes, c) ==
  IF c.bone \in nodes
  THEN [rot EXCEPT ![c.bone] = << lerp(@[1], c.x, c.speed),
                                  lerp(@[2], c.y, c.speed),
                                  lerp(@[3], c.z, c.speed) >>]
  ELSE rot

RECURSIVE applyCalls(_, _, _)
\* The calls of a branch, run in order.
applyCalls(rot, nodes, calls) ==
  IF calls = << >> THEN rot
  ELSE applyCalls(rotateBone(rot, nodes, Head(calls)), nodes, Tail(calls))

\* The joints a frame wrote: those of its calls that found a node.
writtenBy(nodes, calls) ==
  {calls[i].bone : i \in DOMAIN calls} \cap nodes

\* ------------------------------------------- VRMAvatar: the lip sync
rigStartBin == 2
rigEndBin == 30

rigVolumeThree(data) ==
  clamp01(Fix(SumBins(data, rigStartBin, rigEndBin) * 30,
              (rigEndBin - rigStartBin) * 255 * 10))
rigVolumeWide(data) ==
  clamp01(Fix(SumBins(data, rigStartBin, 50) * 35, (50 - rigStartBin) * 255 * 10))
\* volume = Math.min(1.0, Math.max(0, (average / 255) * 3.5)), where
\* average = sum / (endBin - startBin): the quotient sum * 35 over
\* (endBin - startBin) * 255 * 10, rounded once.
rigVolume(data) ==
  clamp01(Fix(SumBins(data, rigStartBin, rigEndBin) * 35,
              (rigEndBin - rigStartBin) * 255 * 10))

lipSyncSlowClose(as, mgr, a, b, data, isBlinking) ==
  IF as.isPlaying /\ as.analyser
  THEN LET volume == rigVolume(data) IN
       IF mgr
       THEN [aa |-> volume,
             blink |-> IF volume > R(600) THEN lerp(b, R(500), 200) ELSE b,
             sampled |-> TRUE, volume |-> volume]
       ELSE [aa |-> a, blink |-> b, sampled |-> TRUE, volume |-> volume]
  ELSE IF mgr
       THEN [aa |-> lerp(a, 0, 100),
             blink |-> IF isBlinking THEN Scale ELSE lerp(b, 0, 200),
             sampled |-> FALSE, volume |-> 0]
       ELSE [aa |-> a, blink |-> b, sampled |-> FALSE, volume |-> 0]
lipSyncCooldown(as, mgr, a, b, data, isBlinking) ==
  IF as.isPlaying /\ as.analyser
  THEN LET volume == rigVolume(data) IN
       IF mgr
       THEN [aa |-> volume,
             blink |-> IF volume > R(600) THEN lerp(b, R(500), 200) ELSE b,
             sampled |-> TRUE, volume |-> volume]
       ELSE [aa |-> a, blink |-> b, sampled |-> TRUE, volume |-> volume]
  ELSE IF mgr
       THEN [aa |-> lerp(a, 0, 200),
             blink |-> IF isBlinking /\ b < R(500) THEN Scale
                       ELSE lerp(b, 0, 200),
             sampled |-> FALSE, volume |-> 0]
       ELSE [aa |-> a, blink |-> b, sampled |-> FALSE, volume |-> 0]
lipSyncDecayQuiet(as, mgr, a, b, data, isBlinking) ==
  IF as.isPlaying /\ as.analyser
  THEN LET volume == rigVolume(data) IN
       IF mgr
       THEN [aa |-> volume,
             blink |-> IF volume > R(600) THEN lerp(b, R(500), 200)
                       ELSE lerp(b, 0, 200),
             sampled |-> TRUE, volume |-> volume]
       ELSE [aa |-> a, blink |-> b, sampled |-> TRUE, volume |-> volume]
  ELSE IF mgr
       THEN [aa |-> lerp(a, 0, 200),
             blink |-> IF isBlinking THEN Scale ELSE lerp(b, 0, 200),
             sampled |-> FALSE, volume |-> 0]
       ELSE [aa |-> a, blink |-> b, sampled |-> FALSE, volume |-> 0]
lipSyncUnguarded(as, mgr, a, b, data, isBlinking) ==
  IF as.isPlaying /\ as.analyser
  THEN LET volume == rigVolume(data) IN
       [aa |-> volume,
        blink |-> IF volume > R(600) THEN lerp(b, R(500), 200) ELSE b,
        sampled |-> TRUE, volume |-> volume]
  ELSE IF mgr
       THEN [aa |-> lerp(a, 0, 200),
             blink |-> IF isBlinking THEN Scale ELSE lerp(b, 0, 200),
             sampled |-> FALSE, volume |-> 0]
       ELSE [aa |-> a, blink |-> b, sampled |-> FALSE, volume |-> 0]
lipSyncSquintAt(as, mgr, a, b, data, isBlinking) ==
  IF as.isPlaying /\ as.analyser
  THEN LET volume == rigVolume(data) IN
       IF mgr
       THEN [aa |-> volume,
             blink |-> IF volume >= R(600) THEN lerp(b, R(500), 200) ELSE b,
             sampled |-> TRUE, volume |-> volume]
       ELSE [aa |-> a, blink |-> b, sampled |-> TRUE, volume |-> volume]
  ELSE IF mgr
       THEN [aa |-> lerp(a, 0, 200),
             blink |-> IF isBlinking THEN Scale ELSE lerp(b, 0, 200),
             sampled |-> FALSE, volume |-> 0]
       ELSE [aa |-> a, blink |-> b, sampled |-> FALSE, volume |-> 0]
lipSyncBlinkHold(as, mgr, a, b, data, isBlinking) ==
  IF as.isPlaying /\ as.analyser
  THEN LET volume == rigVolume(data) IN
       IF mgr
       THEN [aa |-> volume,
             blink |-> IF volume > R(600) THEN lerp(b, R(500), 200) ELSE b,
             sampled |-> TRUE, volume |-> volume]
       ELSE [aa |-> a, blink |-> b, sampled |-> TRUE, volume |-> volume]
  ELSE IF mgr
       THEN [aa |-> lerp(a, 0, 200),
             blink |-> IF isBlinking THEN Scale ELSE b,
             sampled |-> FALSE, volume |-> 0]
       ELSE [aa |-> a, blink |-> b, sampled |-> FALSE, volume |-> 0]
lipSyncNoTapKeeps(as, mgr, a, b, data, isBlinking) ==
  IF as.isPlaying /\ as.analyser
  THEN LET volume == rigVolume(data) IN
       IF mgr
       THEN [aa |-> volume,
             blink |-> IF volume > R(600) THEN lerp(b, R(500), 200) ELSE b,
             sampled |-> TRUE, volume |-> volume]
       ELSE [aa |-> a, blink |-> b, sampled |-> TRUE, volume |-> volume]
  ELSE IF mgr /\ as.analyser
       THEN [aa |-> lerp(a, 0, 200),
             blink |-> IF isBlinking THEN Scale ELSE lerp(b, 0, 200),
             sampled |-> FALSE, volume |-> 0]
       ELSE [aa |-> a, blink |-> b, sampled |-> FALSE, volume |-> 0]
\* Part 3 of the frame callback: the weights of 'aa' and 'blink' after it,
\* and whether it sampled the analyser. isBlinking is the outcome of
\* Math.random() > 0.992.
lipSync(as, mgr, a, b, data, isBlinking) ==
  IF as.isPlaying /\ as.analyser
  THEN LET volume == rigVolume(data) IN
       IF mgr
       THEN [aa |-> volume,
             blink |-> IF volume > R(600) THEN lerp(b, R(500), 200) ELSE b,
             sampled |-> TRUE, volume |-> volume]
       ELSE [aa |-> a, blink |-> b, sampled |-> TRUE, volume |-> volume]
  ELSE IF mgr
       THEN [aa |-> lerp(a, 0, 200),
             blink |-> IF isBlinking THEN Scale ELSE lerp(b, 0, 200),
             sampled |-> FALSE, volume |-> 0]
       ELSE [aa |-> a, blink |-> b, sampled |-> FALSE, volume |-> 0]

\* The values of the mounted driver that a frame may change.
Snapshot ==
  [rotation |-> rotation, aa |-> aa, blink |-> blink, scale |-> scale,
   scaleY |-> scaleY, color |-> color, positionY |-> positionY, rotationY |-> rotationY,
   influence |-> influence]

\* What a frame read and computed.
FrameRecord(driver, t, sampled, data, volume, isBlinking, written) ==
  [driver |-> driver, state |-> avatarState, audio |-> audioState, t |-> t,
   sampled |-> sampled, data |-> IF sampled THEN data ELSE Silence,
   volume |-> volume, isBlinking |-> isBlinking, written |-> written]

NoFrame == [driver |-> "none", state |-> "idle",
            audio |-> [isPlaying |-> FALSE, analyser |-> FALSE], t |-> 0,
            sampled |-> FALSE, data |-> Silence, volume |-> 0,
            isBlinking |-> FALSE, written |-> {}]

\* Bookkeeping of every frame.
Count(limit) ==
  /\ frames < limit
  /\ frames' = frames + 1
  /\ silentFrames' = IF audioState.isPlaying THEN 0 ELSE silentFrames + 1
  /\ prev' = Snapshot

\* The useFrame callback of VRMAvatar, once the rig is loaded.
VRMFrame(limit, t, data, isBlinking) ==
  /\ mounted = "vrm"
  /\ t >= elapsedTime
  /\ Count(limit)
  /\ LET calls == poseCalls(avatarState, t)
         lip == lipSync(audioState, expressionManager, aa, blink, data,
                        isBlinking)
     IN /\ rotation' = applyCalls(vrmUpdate(rotation, humanoid), humanoid,
                                  calls)
        /\ aa' = lip.aa
        /\ blink' = lip.blink
        /\ last' = FrameRecord("vrm", t, lip.sampled, data, lip.volume,
                               (~lip.sampled) /\ expressionManager /\ isBlinking,
                               writtenBy(humanoid, calls))
  /\ elapsedTime' = t
  /\ UNCHANGED <<appVars, rigConfig, shapeVars, influence>>

\* ------------------------------------------------------ DefaultAvatar
shapeStartBin == 2
shapeEndBin == 30

shapeVolumeNoMin(data) ==
  Fix(SumBins(data, shapeStartBin, shapeEndBin),
      (shapeEndBin - shapeStartBin) * 100)
\* volume = Math.min(1, average / 100)
shapeVolume(data) ==
  LET v == Fix(SumBins(data, shapeStartBin, shapeEndBin),
               (shapeEndBin - shapeStartBin) * 100)
  IN IF v > Scale THEN Scale ELSE v

shapeVolumeDoubleNoMin(data) ==
  DoubleDiv(DoubleDiv(DoubleOf(SumBins(data, shapeStartBin, shapeEndBin)),
                      shapeEndBin - shapeStartBin), 100)
\* volume = Math.min(1, average / 100), in doubles.
shapeVolumeDouble(data) ==
  MathMin(One,
          DoubleDiv(DoubleDiv(DoubleOf(SumBins(data, shapeStartBin,
                                               shapeEndBin)),
                              shapeEndBin - shapeStartBin), 100))

\* targetScaleY = 1, or 1 + (volume * 0.5) in a frame that samples.
shapeTargetScaleY(sampled, data) ==
  IF sampled
    THEN DoubleAdd(One, DoubleMul(shapeVolumeDouble(data), Literal(5)))
    ELSE One

RECURSIVE SqrtBetween(_, _, _)
\* The largest w in lo .. hi with w * w <= m (lo * lo <= m).
SqrtBetween(m, lo, hi) ==
  IF lo >= hi THEN lo
  ELSE LET mid == (lo + hi + 1) \div 2
       IN IF mid * mid <= m THEN SqrtBetween(m, mid, hi)
          ELSE SqrtBetween(m, lo, mid - 1)

\* 1 / Math.sqrt(y), to four decimals (y at least 0.05).
invSqrt(y) ==
  LET m == FixDigits(Scale \div y, Scale % y, y, 8)
  IN SqrtBetween(m, 0, 46340) * (Scale \div 10000)

\* SRGBToLinear(byte / 255) = ((c * 0.9478672986) + 0.0521327014) ^ 2.4 for
\* c >= 0.04045, tabulated in millionths for the bytes of the two colours.
SRGBToLinear(byte) ==
  FromMicro(CASE byte = 70 -> 61246
              [] byte = 79 -> 78187
              [] byte = 129 -> 219526
              [] byte = 140 -> 262251
              [] byte = 229 -> 783538
              [] byte = 248 -> 938686)

\* new THREE.Color("#4f46e5") and new THREE.Color("#818cf8"): with colour
\* management on, a hexadecimal style is read as sRGB and each channel is
\* stored linear.
BaseColor == << SRGBToLinear(79), SRGBToLinear(70), SRGBToLinear(229) >>
LightColor == << SRGBToLinear(129), SRGBToLinear(140), SRGBToLinear(248) >>

colorLerpSnap(c, target, tm) == LightColor
\* color.lerp(target, alpha): channel by channel.
colorLerp(c, target, tm) ==
  << lerp(c[1], target[1], tm), lerp(c[2], target[2], tm),
     lerp(c[3], target[3], tm) >>

shapeScaleFromTarget(sc, targetScaleY) ==
  LET y == lerp(sc[2], targetScaleY, 200)
      inverseScale == invSqrt(targetScaleY)
  IN << lerp(sc[1], inverseScale, 200), y, lerp(sc[3], inverseScale, 200) >>
\* mesh.scale after the callback: y moves toward the target, then x and z
\* move toward the inverse scale of the new y.
shapeScale(sc, targetScaleY) ==
  LET y == lerp(sc[2], targetScaleY, 200)
      inverseScale == invSqrt(y)
  IN << lerp(sc[1], inverseScale, 200), y, lerp(sc[3], inverseScale, 200) >>

\* The useFrame callback of DefaultAvatar, once the mesh is mounted. The
\* emissive colour starts equal to the colour and takes the same lerp, so
\* color stands for both.
DefaultFrame(limit, t, data) ==
  /\ mounted = "default"
  /\ t >= elapsedTime
  /\ Count(limit)
  /\ LET sampled == audioState.isPlaying /\ audioState.analyser
         volume == IF sampled THEN shapeVolume(data) ELSE 0
         targetScaleY == IF sampled THEN Scale + Half(volume) ELSE Scale
         targetColor == IF sampled /\ volume > R(200) THEN LightColor
                        ELSE BaseColor
     IN /\ scale' = shapeScale(scale, targetScaleY)
        /\ scaleY' = lerpDouble(scaleY, shapeTargetScaleY(sampled, data),
                                Literal(2))
        /\ color' = colorLerp(color, targetColor, 100)
        /\ last' = FrameRecord("default", t, sampled, data, volume, FALSE, {})
  /\ positionY' = TDiv(FromMicro(MathSin(t * 2)) * 2, 10) + R(500)
  /\ rotationY' = rotationY + R(10)
  /\ elapsedTime' = t
  /\ UNCHANGED <<appVars, rigConfig, vrmVars, influence>>

\* ----------------------------------------------------------- MMDModel
morphStartBin == 2
morphEndBin == 50

\* value = Math.min(1, Math.max(0, (average / 100) * sensitivity)),
\* sensitivity = 2.0
morphValue(data) ==
  clamp01(Fix(SumBins(data, morphStartBin, morphEndBin) * 2,
              (morphEndBin - morphStartBin) * 100))

\* The useFrame callback's guard: it returns early, without sampling, when
\* the morph index, the analyser or playback is missing.
morphSampled(as, idx) == ~(idx = "null" \/ ~as.analyser \/ ~as.isPlaying)

morphInfluenceDirect(cur, as, idx, data) ==
  IF ~morphSampled(as, idx)
  THEN IF idx # "null" /\ ~as.isPlaying THEN lerp(cur, 0, 200) ELSE cur
  ELSE morphValue(data)
\* morphTargetInfluences[morphIndex] after the callback.
morphInfluence(cur, as, idx, data) ==
  IF ~morphSampled(as, idx)
  THEN IF idx # "null" /\ ~as.isPlaying THEN lerp(cur, 0, 200) ELSE cur
  ELSE lerp(cur, morphValue(data), 400)

\* The useFrame callback of MMDModel, once the mesh is mounted.
MMDFrame(limit, data) ==
  /\ mounted = "mmd"
  /\ Count(limit)
  /\ influence' = morphInfluence(influence, audioState, morphIndex, data)
  /\ last' = LET sampled == morphSampled(audioState, morphIndex)
             IN FrameRecord("mmd", elapsedTime, sampled, data,
                            IF sampled THEN morphValue(data) ELSE 0, FALSE, {})
  /\ UNCHANGED <<appVars, rigConfig, vrmVars, shapeVars, elapsedTime>>

\* ------------------------------------------------------ specifications
\* The rigs: a full humanoid, and one that lacks six of the named joints.
Rigs == {Joints, {"Head", "Spine", "LeftUpperArm", "RightHand"}}

\* Scene mounts one driver; the rig and the morph target are as loaded.
Config(driver) ==
  /\ mounted = driver
  /\ humanoid \in (IF driver = "vrm" THEN Rigs ELSE {{}})
  /\ expressionManager \in (IF driver = "vrm" THEN BOOLEAN ELSE {FALSE})
  /\ morphIndex \in (IF driver = "mmd" THEN {"null", "0"} ELSE {"null"})

\* App's initial state.
AppInit ==
  /\ isProcessing = FALSE
  /\ isUserTyping = FALSE
  /\ audioState = [isPlaying |-> FALSE, analyser |-> FALSE]
  /\ avatarState = "idle"
  /\ ChatInit

\* The vertical scale at rest, in fixed point and as a double.
ScaleRest == [fixed |-> Scale, double |-> One]

\* The clock and the driven objects before the first frame, the vertical
\* scale being y.
SceneStart(y) ==
  /\ blink = 0
  /\ scale = <<Scale, y.fixed, Scale>>
  /\ scaleY = y.double
  /\ color = BaseColor
  /\ positionY = 0
  /\ rotationY = 0
  /\ frames = 0
  /\ silentFrames = 0
  /\ last = NoFrame

\* The clock and the driven objects before the first frame: the rest pose,
\* a closed eye, unit scale and the base colour.
SceneInit == SceneStart(ScaleRest)

\* Scene mounts VRMAvatar when it is given a model URL and DefaultAvatar when
\* it is given none. App always gives it one, so the fallback shape runs
\* where Scene is mounted with modelUrl null, under props as App makes them.
Init ==
  /\ \E driver \in {"vrm", "default"} : Config(driver)
  /\ AppInit
  /\ SceneInit
  /\ elapsedTime = 0
  /\ rotation = ZeroPose
  /\ aa = 0
  /\ influence = 0
  /\ prev = Snapshot

RigFrame == \E t \in Times, data \in Spectra, isBlinking \in BOOLEAN :
              VRMFrame(MaxFrames, t, data, isBlinking)
ShapeFrame == \E t \in Times, data \in Spectra :
                DefaultFrame(MaxFrames, t, data)
MorphFrame == \E data \in Spectra : MMDFrame(MaxFrames, data)

Next ==
  \/ SetAudioState
  \/ SetIsProcessing
  \/ SetIsUserTyping
  \/ RigFrame
  \/ ShapeFrame

Spec == Init /\ [][Next]_vars

\* The three frame callbacks side by side. Scene.tsx exports MMDModel and
\* mounts it nowhere itself, so its callback runs here as a component that
\* receives the audio states App produces.
InitDrivers ==
  /\ \E driver \in {"vrm", "default", "mmd"} : Config(driver)
  /\ AppInit
  /\ SceneInit
  /\ elapsedTime = 0
  /\ rotation = ZeroPose
  /\ aa = 0
  /\ influence = 0
  /\ prev = Snapshot

NextDrivers ==
  \/ SetAudioState
  \/ RigFrame
  \/ ShapeFrame
  \/ MorphFrame

SpecDrivers == InitDrivers /\ [][NextDrivers]_vars

\* Silence: playback never starts (or its decode failed), and the mouth
\* starts at any of these weights and the fallback shape at any of these
\* vertical scales.
MouthStarts == {0, R(10), R(500), Scale - 1, Scale}
ScaleStarts == {ScaleRest,
                [fixed |-> R(1250), double |-> DoubleDiv(DoubleOf(5), 4)],
                [fixed |-> R(1500), double |-> Literal(15)]}

InitDecay ==
  /\ \E driver \in {"vrm", "default", "mmd"} : Config(driver)
  /\ AppInit
  /\ \E y \in (IF mounted = "default" THEN ScaleStarts ELSE {ScaleRest}) :
       SceneStart(y)
  /\ elapsedTime = 0
  /\ rotation = ZeroPose
  /\ aa \in (IF mounted = "vrm" THEN MouthStarts ELSE {0})
  /\ influence \in (IF mounted = "mmd" THEN MouthStarts ELSE {0})
  /\ prev = Snapshot

DecayRigFrame == \E isBlinking \in BOOLEAN :
                   VRMFrame(MaxDecayFrames, elapsedTime, Silence, isBlinking)
DecayShapeFrame == DefaultFrame(MaxDecayFrames, elapsedTime, Silence)
DecayMorphFrame == MMDFrame(MaxDecayFrames, Silence)

NextDecay ==
  \/ InitAudioContext
  \/ DecayRigFrame
  \/ DecayShapeFrame
  \/ DecayMorphFrame

SpecDecay == InitDecay /\ [][NextDecay]_vars

\* Settling: the avatar state (one flag set at most) and the clock sample stay
\* as they are, and a full rig starts from rest.

InitSettle ==
  /\ mounted = "vrm"
  /\ humanoid = Joints
  /\ expressionManager = FALSE
  /\ morphIndex = "null"
  /\ isProcessing \in BOOLEAN
  /\ isUserTyping \in BOOLEAN
  /\ audioState \in AudioStates
  /\ Cardinality({f \in {1, 2, 3} :
                    <<audioState.isPlaying, isProcessing, isUserTyping>>[f]}) <= 1
  /\ avatarState = getAvatarState(audioState.isPlaying, isProcessing,
                                  isUserTyping)
  /\ SceneInit
  /\ elapsedTime \in Times
  /\ rotation = ZeroPose
  /\ aa = 0
  /\ influence = 0
  /\ prev = Snapshot
  /\ ChatInit

SettleFrame == VRMFrame(MaxSettleFrames, elapsedTime, Silence, FALSE)

\* The frame scheduler runs the callback on every rendered frame.
SpecSettle == InitSettle /\ [][SettleFrame]_vars /\ WF_vars(SettleFrame)

\* Levels: a rig sampled on frames whose window average sits at and around
\* the thresholds of the lip sync: all 200; 72 and 73 (3.5 times the average
\* just below and just above 255); 43 and 44 (around 0.6); and frames whose
\* window sums to 1224 (exactly 0.6) and to 2040 (exactly 1.0).
LevelSpectra == {Step(a, 0, a) : a \in {0, 43, 44, 72, 73, 200, 255}}
                  \cup {Step(51, 26, 0), Step(85, 26, 0)}
BlinkStarts == {0, R(500), Scale}

InitLevels ==
  /\ mounted = "vrm"
  /\ humanoid = Joints
  /\ expressionManager \in BOOLEAN
  /\ morphIndex = "null"
  /\ isProcessing = FALSE
  /\ isUserTyping = FALSE
  /\ audioState \in AudioStates
  /\ avatarState = getAvatarState(audioState.isPlaying, isProcessing,
                                  isUserTyping)
  /\ scale = <<Scale, Scale, Scale>>
  /\ scaleY = One
  /\ color = BaseColor
  /\ positionY = 0
  /\ rotationY = 0
  /\ frames = 0
  /\ silentFrames = 0
  /\ last = NoFrame
  /\ elapsedTime = 0
  /\ rotation = ZeroPose
  /\ aa = 0
  /\ blink \in BlinkStarts
  /\ influence = 0
  /\ prev = Snapshot
  /\ ChatInit

LevelFrame == \E data \in LevelSpectra, isBlinking \in BOOLEAN :
                VRMFrame(MaxLevelFrames, elapsedTime, data, isBlinking)

SpecLevels == InitLevels /\ [][LevelFrame]_vars

\* Partial rigs: a rig holding any subset of the named joints, in any
\* avatar state, runs frames from rest.
InitRigs ==
  /\ mounted = "vrm"
  /\ humanoid \in SUBSET Joints
  /\ expressionManager = TRUE
  /\ morphIndex = "null"
  /\ isProcessing \in BOOLEAN
  /\ isUserTyping \in BOOLEAN
  /\ audioState \in AudioStates
  /\ Cardinality({f \in {1, 2, 3} :
                    <<audioState.isPlaying, isProcessing, isUserTyping>>[f]}) <= 1
  /\ avatarState = getAvatarState(audioState.isPlaying, isProcessing,
                                  isUserTyping)
  /\ SceneInit
  /\ elapsedTime = 0
  /\ rotation = ZeroPose
  /\ aa = 0
  /\ influence = 0
  /\ prev = Snapshot
  /\ ChatInit

PartialRigFrame == \E t \in Times, isBlinking \in BOOLEAN :
                     VRMFrame(MaxRigFrames, t, Silence, isBlinking)

SpecRigs == InitRigs /\ [][PartialRigFrame]_vars

\* The chat: App as constructed (the default model mounted), the user
\* sending messages, the awaited calls settling either way, sources
\* finishing and their 'ended' events dispatched.
InitChat ==
  /\ Config("vrm")
  /\ humanoid = Joints
  /\ expressionManager = TRUE
  /\ AppInit
  /\ SceneInit
  /\ elapsedTime = 0
  /\ rotation = ZeroPose
  /\ aa = 0
  /\ influence = 0
  /\ prev = Snapshot

\* The awaited promise of the call in flight settles.
Settle ==
  \/ TextResolved
  \/ TextRejected
  \/ SpeechResolved
  \/ SpeechRejected
  \/ DecodeResolved
  \/ DecodeRejected

NextChat ==
  \/ HandleSendMessage
  \/ Settle
  \/ SourceFinishes
  \/ OnEnded

\* Every awaited promise settles and every pending event is dispatched.
SpecChat == InitChat /\ [][NextChat]_vars /\ WF_vars(Settle) /\ WF_vars(OnEnded)

\* The fallback shape over many frames: Scene is mounted with modelUrl null,
\* as App never mounts it, and is given the audio states App makes. Playback
\* starts, is sampled frame after frame and stops; no frame samples a second
\* playback. Every sampled frame is all 255.
InitShape ==
  /\ Config("default")
  /\ AppInit
  /\ SceneInit
  /\ elapsedTime = 0
  /\ rotation = ZeroPose
  /\ aa = 0
  /\ influence = 0
  /\ prev = Snapshot

\* The audioState prop changes; frames = silentFrames as long as no frame
\* has run during playback.
ShapeSetAudioState ==
  \E as \in AudioStates :
    /\ as.isPlaying => frames = silentFrames
    /\ SetAudioStateTo(as)

\* A frame of the run: at most MaxQuietFrames in a row while nothing plays,
\* any number up to MaxShapeFrames during playback.
LongShapeFrame ==
  /\ audioState.isPlaying \/ silentFrames < MaxQuietFrames
  /\ DefaultFrame(MaxShapeFrames, elapsedTime, Step(255, 0, 255))

NextShape ==
  \/ ShapeSetAudioState
  \/ LongShapeFrame

SpecShape == InitShape /\ [][NextShape]_vars

\* The effect of VRMAvatar once the file at the new URL is loaded: a file
\* that holds a VRM replaces the rig, which starts at rest with every weight
\* at 0; a file that holds none leaves the rig in use.
setVrm(gltf) ==
  IF gltf.vrm
    THEN /\ humanoid' = gltf.humanoid
         /\ expressionManager' = gltf.expressionManager
         /\ rotation' = ZeroPose
         /\ aa' = 0
         /\ blink' = 0
    ELSE UNCHANGED <<humanoid, expressionManager, rotation, aa, blink>>

\* What the loader may give for an uploaded file.
Gltfs ==
  {[vrm |-> TRUE, humanoid |-> h, expressionManager |-> m] :
     h \in Rigs, m \in BOOLEAN}
  \cup {[vrm |-> FALSE, humanoid |-> {}, expressionManager |-> FALSE]}

\* useLoader has loaded the file at the URL Scene passes, and the effect of
\* VRMAvatar runs on it.
ModelLoaded ==
  /\ vrmUrl # modelUrl
  /\ vrmUrl' = modelUrl
  /\ \E gltf \in Gltfs : setVrm(gltf)
  /\ UNCHANGED <<isProcessing, isUserTyping, audioState, avatarState,
                 mounted, elapsedTime, scale, scaleY, color, positionY,
                 rotationY, morphIndex, influence, frames, silentFrames,
                 prev, last>>
  /\ UNCHANGED <<chatVars, input, typingTimeoutRef, timers, nextTimer, now,
                 modelUrl, modelStatus, uiLast, changedAt>>

\* handleModelUpload: every call creates a fresh blob URL, which Scene hands
\* to VRMAvatar.
handleModelUpload(file) ==
  /\ modelStatus' = "LOADING"
  /\ modelUrl' = modelUrl + 1
  /\ timers' = setTimeout(timers, nextTimer, ReadyDelay, "ready")
  /\ nextTimer' = nextTimer + 1

\* Whether handleFileChange forwards the picked files, checking no name.
forwardsAny(files) == files # << >>

\* Whether handleFileChange forwards the picked files to onModelUpload.
forwards(files) ==
  files # << >> /\ endsWith(files[1].name, <<".", "v", "r", "m">>)

\* handleFileChange
HandleFileChange ==
  /\ uiLast.n < MaxUiEvents
  /\ now + ReadyDelay <= MaxTime
  /\ \E files \in FileLists :
       IF forwards(files)
         THEN /\ handleModelUpload(files[1])
              /\ uiLast' = [Event("file") EXCEPT !.files = files]
         ELSE /\ uiLast' = [Event("fileRejected") EXCEPT !.files = files]
              /\ UNCHANGED <<timers, nextTimer, modelUrl, modelStatus>>
  /\ Render(audioState, isProcessing, isUserTyping)
  /\ UNCHANGED <<chatVars, input, typingTimeoutRef, now, vrmUrl, changedAt>>

InitInput == InitChat

NextInput ==
  \/ InitAudioContext
  \/ HandleInputChange
  \/ HandleSubmit
  \/ TypingTimerFires
  \/ HandleFileChange
  \/ ModelLoaded
  \/ ReadyTimerFires
  \/ Tick
  \/ Settle
  \/ SourceFinishes
  \/ OnEnded

\* Time passes, due timeouts fire and awaited promises settle.
SpecInput ==
  /\ InitInput
  /\ [][NextInput]_vars
  /\ WF_vars(Tick)
  /\ WF_vars(TypingTimerFires)
  /\ WF_vars(ReadyTimerFires)
  /\ WF_vars(Settle)

\* ------------------------------------------------------------- claims
Axes == {1, 2, 3}
Target(c) == <<c.x, c.y, c.z>>

\* C1: the avatar state passed to the scene is 'speaking' if audio is
\* playing, else 'thinking' if a request is in flight, else 'typing' if the
\* user is typing, else 'idle', whatever the three values were before.
C1_AvatarStateDerived ==
  avatarState = (IF audioState.isPlaying THEN "speaking"
                 ELSE IF isProcessing THEN "thinking"
                 ELSE IF isUserTyping THEN "typing"
                 ELSE "idle")

\* All three values are true at once, and playback takes precedence.
C1_Witness ==
  /\ audioState.isPlaying /\ isProcessing /\ isUserTyping
  /\ avatarState = "speaking"

\* C2: in a frame of the rig, every joint axis that changes moves by at most
\* factor * |target - before|, with the target and factor of the branch of
\* the current avatar state and the value the frame before left; no axis is
\* assigned from its target, and a joint no call names keeps its value.
C2_StepBounded ==
  last.driver = "vrm" =>
    LET calls == poseCalls(last.state, last.t) IN
    /\ \A i \in DOMAIN calls : \A a \in Axes :
         LET c == calls[i]
             before == prev.rotation[c.bone][a]
         IN Abs(rotation[c.bone][a] - before)
              <= (calls[i].speed * Abs(Target(c)[a] - before)) \div 1000
    /\ \A j \in Joints \ last.written : rotation[j] = prev.rotation[j]

\* C3 as stated: a frame of the rig, in any state, writes every joint that
\* the rig has.
C3_EveryPresentJointWritten ==
  last.driver = "vrm" => last.written = humanoid

\* The joints each state's branch targets.
C3_Targeted(state) ==
  IF state = "idle" THEN Joints
  ELSE IF state = "thinking" THEN Joints \ {"Hips"}
  ELSE {"Head", "Neck", "Spine", "LeftUpperArm", "LeftLowerArm",
        "RightUpperArm", "RightLowerArm"}

\* C3, amended: a frame of the rig advances toward a target exactly the
\* present joints that the branch of the current state targets (all ten
\* when idle, all but the hips when thinking, head, neck, spine and the
\* upper and lower arms when typing or speaking); every other present joint
\* is advanced toward nothing and is at rest after the frame.
C3_TargetedJointsWritten ==
  last.driver = "vrm" =>
    /\ last.written = humanoid \cap C3_Targeted(last.state)
    /\ \A j \in Joints \ C3_Targeted(last.state) :
         rotation[j] = (IF j \in humanoid THEN <<0, 0, 0>>
                        ELSE prev.rotation[j])

\* A frame in the typing state on a full rig, after a frame that moved the
\* hips and the right hand: the frame writes neither, and both are at rest.
C3_Witness ==
  /\ last.driver = "vrm" /\ last.state = "typing" /\ humanoid = Joints
  /\ "Hips" \notin last.written /\ "RightHand" \notin last.written
  /\ prev.rotation["RightHand"] # <<0, 0, 0>>
  /\ rotation["RightHand"] = <<0, 0, 0>>
  /\ rotation["Head"] # <<0, 0, 0>>

\* C5: the voice energy a driver computes from a frame of byte samples lies
\* in [0, 1], for the rig, the fallback shape and the morph target.
C5_VolumeInUnitRange ==
  last.sampled => (0 <= last.volume /\ last.volume <= Scale)

\* The fallback shape samples a frame of all 255 (average / 100 is 2.55).
C5_Witness ==
  /\ last.driver = "default" /\ last.sampled
  /\ \A i \in Bins : last.data[i] = 255
  /\ last.volume = Scale

\* The mouth weight of the mounted driver, when the driver has one.
HasMouth ==
  \/ mounted = "vrm" /\ expressionManager
  \/ mounted = "mmd" /\ morphIndex # "null"
Mouth(v) == IF mounted = "vrm" THEN v.aa ELSE v.influence

\* after is nearer to rest than before; it may stay only where a fifth of
\* the distance is below the resolution.
TowardRest(before, after, rest) ==
  /\ Abs(after - rest) <= Abs(before - rest)
  /\ Abs(before - rest) >= 5 => Abs(after - rest) < Abs(before - rest)

TwoFifths(x, y) == x + TDiv((y - x) * 2, 5)
OneFifth(x, y) == x + TDiv(y - x, 5)

\* C8 as stated: in a frame that samples the analyser, the mouth weight of
\* the rig and of the morph target becomes lerp(previous, volume, 0.4).
C8_MouthLerpsToVolume ==
  (last.sampled /\ HasMouth) =>
    Mouth(Snapshot) = TwoFifths(Mouth(prev), last.volume)

\* C8, amended: in a frame that samples the analyser, the morph target's
\* weight becomes lerp(previous, volume, 0.4), and the rig's 'aa' weight is
\* set to the volume itself.
C8_MorphLerpsRigAssigns ==
  (last.sampled /\ HasMouth) =>
    /\ mounted = "mmd" => influence = TwoFifths(prev.influence, last.volume)
    /\ mounted = "vrm" => aa = last.volume

\* A second sampling frame of the morph target at full volume: the weight
\* rises from a positive value and stays below the volume.
C8_Witness ==
  /\ last.driver = "mmd" /\ last.sampled /\ last.volume = Scale
  /\ 0 < prev.influence /\ prev.influence < influence /\ influence < Scale

\* C9 as stated: after a frame of the fallback shape, scale.x and scale.z
\* equal 1 / sqrt(scale.y), to the resolution of the square root.
C9_HorizontalIsInverseSqrt ==
  last.driver = "default" =>
    /\ scale[1] = scale[3]
    /\ Abs(scale[1] - invSqrt(scale[2])) <= Scale \div 10000

\* C9, amended: after a frame of the fallback shape, scale.x and scale.z are
\* equal and have moved a fifth of the way from their previous value toward
\* 1 / sqrt(scale.y), scale.y being the value the same frame produced.
C9_HorizontalLerpsToInverseSqrt ==
  last.driver = "default" =>
    /\ scale[1] = scale[3]
    /\ scale[1] = OneFifth(prev.scale[1], invSqrt(scale[2]))

\* A sampling frame stretches the shape: scale.x has left 1 and is still far
\* above 1 / sqrt(scale.y).
C9_Witness ==
  /\ last.driver = "default" /\ last.sampled
  /\ scale[2] > Scale /\ scale[1] < Scale
  /\ scale[1] > invSqrt(scale[2]) + R(10)

\* Bins on both sides of the windows' edges, and the last bin.
ProbeBins == {0, 1, 30, 31, 49, 50, 51, frequencyBinCount - 1}

\* The volume the mounted driver computes from a frame.
DriverVolume(data) ==
  IF mounted = "vrm" THEN rigVolume(data)
  ELSE IF mounted = "default" THEN shapeVolume(data)
  ELSE morphValue(data)

\* Changing one sample at a probe bin outside lo .. hi - 1 leaves the
\* volume of the last frame as it is.
OutsideIgnored(lo, hi) ==
  \A b \in ProbeBins : \A v \in Levels :
    (b < lo \/ b >= hi) =>
      DriverVolume([last.data EXCEPT ![b] = v]) = last.volume

\* C10 as stated: the rig's volume is the clamped average of bins 2..29
\* (times 3.5 / 255), the fallback shape's that of bins 2..49 (over 100);
\* samples outside a driver's window do not change its volume.
C10_WindowsAsStated ==
  last.sampled =>
    /\ mounted = "vrm" =>
         /\ last.volume = clamp01(Fix(SumBins(last.data, 2, 30) * 35, 28 * 2550))
         /\ OutsideIgnored(2, 30)
    /\ mounted = "default" =>
         /\ last.volume = clamp01(Fix(SumBins(last.data, 2, 50), 48 * 100))
         /\ OutsideIgnored(2, 50)

\* C10, amended: the rig and the fallback shape both average bins 2..29 and
\* the morph target averages bins 2..49; samples outside a driver's window
\* do not change its volume.
C10_Windows ==
  last.sampled =>
    /\ mounted = "vrm" =>
         /\ last.volume = clamp01(Fix(SumBins(last.data, 2, 30) * 35, 28 * 2550))
         /\ OutsideIgnored(2, 30)
    /\ mounted = "default" =>
         /\ last.volume = clamp01(Fix(SumBins(last.data, 2, 30), 28 * 100))
         /\ OutsideIgnored(2, 30)
    /\ mounted = "mmd" =>
         /\ last.volume = clamp01(Fix(SumBins(last.data, 2, 50) * 2, 48 * 100))
         /\ OutsideIgnored(2, 50)

\* The fallback shape samples a frame that is silent below bin 30 and loud
\* from bin 30 on: its volume is 0.
C10_Witness ==
  /\ last.driver = "default" /\ last.sampled
  /\ last.data[29] = 0 /\ last.data[30] = 255
  /\ last.volume = 0

\* The distance of a joint axis from the target of a call.
Err(rot, c, a) == rot[c.bone][a] - Target(c)[a]

\* In the last frame no written axis moved away from its target or across
\* it.
C4_Monotone ==
  last.driver = "vrm" =>
    LET calls == poseCalls(last.state, last.t) IN
    \A i \in DOMAIN calls : \A a \in Axes :
      LET c == calls[i]
          before == Err(prev.rotation, c, a)
          after == Err(rotation, c, a)
      IN c.bone \in humanoid =>
           /\ Abs(after) <= Abs(before)
           /\ before >= 0 => after >= 0
           /\ before <= 0 => after <= 0

\* Every targeted axis is within the resolution of its factor of its target.
C4_Settled ==
  LET calls == poseCalls(avatarState, elapsedTime) IN
  \A i \in DOMAIN calls : \A a \in Axes :
    calls[i].bone \in humanoid =>
      Abs(Err(rotation, calls[i], a)) * calls[i].speed < 1000

\* C4: frames that keep the same targets never increase |current - target|
\* on any joint axis, never carry an axis across its target, and bring
\* every axis to its target, to the resolution of the arithmetic, by the
\* time MaxSettleFrames frames have run.
C4_Converges ==
  /\ C4_Monotone
  /\ frames = MaxSettleFrames => C4_Settled

\* C6: once 21 frames in a row have run with isPlaying false, the mouth
\* weight (the rig's 'aa', the morph target's influence) is below 0.01, and
\* no frame run with isPlaying false raises it.
C6_MouthCloses ==
  HasMouth =>
    /\ silentFrames >= 21 => Mouth(Snapshot) < R(10)
    /\ (last.driver # "none" /\ ~last.audio.isPlaying) =>
         Mouth(Snapshot) <= Mouth(prev)

\* The 21st silent frame of a rig takes 'aa' from 0.01 or more to below it.
C6_Witness ==
  /\ mounted = "vrm" /\ expressionManager /\ silentFrames = 21
  /\ prev.aa >= R(10) /\ aa < R(10) /\ aa > 0

\* C11: on a rig, after any frames (playing or not, any samples, any blink
\* trigger outcomes), the weights of 'aa' and 'blink' are in [0, 1].
C11_WeightsInUnitRange ==
  mounted = "vrm" =>
    /\ 0 <= aa /\ aa <= Scale
    /\ 0 <= blink /\ blink <= Scale

\* A blink in a silent frame, then a loud sampled frame: the mouth is fully
\* open and the eye is squinting down from closed.
C11_Witness ==
  /\ last.driver = "vrm" /\ expressionManager /\ last.sampled
  /\ prev.blink = Scale /\ aa = Scale
  /\ blink > R(500) /\ blink < Scale

\* C12: a rig frame run with isPlaying false sets 'blink' to 1 when the
\* frame's random trigger fires, and to lerp(previous blink, 0, 0.2) when it
\* does not; nothing else enters.
C12_BlinkRule ==
  (last.driver = "vrm" /\ expressionManager /\ ~last.audio.isPlaying) =>
    blink = (IF last.isBlinking THEN Scale ELSE lerp(prev.blink, 0, 200))

\* The frame after a blink, the trigger not firing: 1 falls to 0.8.
C12_Witness ==
  /\ last.driver = "vrm" /\ expressionManager /\ ~last.audio.isPlaying
  /\ ~last.isBlinking /\ prev.blink = Scale /\ blink = R(800)

\* C13: a rig frame run while audio plays with a voice energy above 0.6
\* sets 'blink' to lerp(previous blink, 0.5, 0.2) whatever the random
\* trigger would have been; a sampled frame with an energy of 0.6 or less
\* leaves 'blink' as it was.
C13_SquintAboveThreshold ==
  (last.driver = "vrm" /\ expressionManager /\ last.audio.isPlaying) =>
    /\ last.volume > R(600) =>
          /\ blink = lerp(prev.blink, R(500), 200)
          /\ ~last.isBlinking
    /\ (last.sampled /\ last.volume <= R(600)) => blink = prev.blink

\* A loud frame squints a closed eye from 1 to 0.9, and the next frame, at
\* an energy of exactly 0.6, leaves it at 0.9.
C13_Witness ==
  /\ last.driver = "vrm" /\ expressionManager /\ last.sampled
  /\ last.volume = R(600)
  /\ prev.blink = R(900) /\ blink = R(900)

\* C18: the rig's voice energy is the window average of bins 2..29 over
\* 255 times 3.5, clamped to [0, 1]: exactly 1 once the window sum times
\* 3.5 reaches 255 times 28 (sum >= 2040), and otherwise sum / 2040 to the
\* resolution.
C18_RigVolumeFormula ==
  (last.driver = "vrm" /\ last.sampled) =>
    LET sum == SumBins(last.data, 2, 30) IN
      IF sum >= 2040
      THEN last.volume = Scale
      ELSE /\ last.volume * 2040 <= sum * Scale
           /\ sum * Scale < (last.volume + 1) * 2040

\* Every sample of the window is 200 and the energy is 1.
C18_Witness ==
  /\ last.driver = "vrm" /\ last.sampled
  /\ \A i \in 2..29 : last.data[i] = 200
  /\ last.volume = Scale

\* C14: on a rig that lacks any subset of the named joints a frame in any
\* state runs to its end, writes nothing for the absent joints, and leaves
\* every present joint where the same frame leaves it on a full rig.
C14_PartialRigAsFullRig ==
  last.driver = "vrm" =>
    LET full == applyCalls([j \in Joints |-> <<0, 0, 0>>], Joints,
                           poseCalls(last.state, last.t))
    IN /\ frames > 0 /\ elapsedTime = last.t
       /\ \A j \in Joints \ humanoid :
            j \notin last.written /\ rotation[j] = prev.rotation[j]
       /\ \A j \in humanoid : rotation[j] = full[j]

\* A thinking frame on a rig that has only a neck and a left hand: both
\* moved, the head (absent, and targeted by the state) did not.
C14_Witness ==
  /\ last.driver = "vrm" /\ last.state = "thinking"
  /\ humanoid = {"Neck", "LeftHand"}
  /\ last.written = {"Neck", "LeftHand"}
  /\ rotation["Neck"] # prev.rotation["Neck"]
  /\ rotation["LeftHand"] # prev.rotation["LeftHand"]
  /\ rotation["Head"] = prev.rotation["Head"]

\* C15: on a rig without an expression manager a frame, playing or not,
\* leaves 'aa' and 'blink' alone and fires no blink, and its pose part
\* runs as usual.
C15_NoExpressionManager ==
  (last.driver = "vrm" /\ ~expressionManager) =>
    /\ aa = prev.aa /\ blink = prev.blink /\ ~last.isBlinking
    /\ rotation = applyCalls([j \in Joints |->
                                IF j \in humanoid THEN <<0, 0, 0>>
                                ELSE prev.rotation[j]],
                             humanoid, poseCalls(last.state, last.t))
    /\ last.written = humanoid \cap C3_Targeted(last.state)

\* A loud sampled frame on such a rig: the pose moved, the mouth did not.
C15_Witness ==
  /\ last.driver = "vrm" /\ ~expressionManager
  /\ last.sampled /\ last.volume = Scale
  /\ rotation # prev.rotation /\ aa = 0 /\ blink = 0

\* C16: a frame of the fallback shape run with isPlaying false moves the
\* vertical scale toward exactly 1 and the colour toward the base colour;
\* every frame, whatever the audio state, adds 0.01 to the yaw and sets the
\* height to sin(2 t) * 0.2 + 0.5 of the frame's elapsed time.
C16_FallbackIdleTargets ==
  last.driver = "default" =>
    /\ ~last.audio.isPlaying =>
          /\ ~last.sampled
          /\ scale[2] = prev.scale[2] + TDiv((Scale - prev.scale[2]) * 200, 1000)
          /\ \A ch \in 1..3 :
               color[ch] = prev.color[ch]
                             + TDiv((BaseColor[ch] - prev.color[ch]) * 100, 1000)
    /\ rotationY = prev.rotationY + R(10)
    /\ positionY = TDiv(FromMicro(MathSin(last.t * 2)) * 200, 1000) + R(500)

\* A silent frame after a loud one, 0.4 s into the clock: the scale comes
\* down from 1.1 toward 1, the colour goes back toward the base colour, the
\* yaw is at 0.02 and the height off its mid point.
C16_Witness ==
  /\ last.driver = "default" /\ ~last.audio.isPlaying /\ last.t = 400
  /\ prev.scale[2] = R(1100) /\ scale[2] = R(1080)
  /\ prev.color # BaseColor /\ color # prev.color
  /\ rotationY = R(20) /\ positionY > R(500)

\* The target a state's branch gives a joint; none when it does not name it.
TargetsOf(state, t, boneName) ==
  LET calls == poseCalls(state, t)
  IN {Target(calls[i]) : i \in {k \in DOMAIN calls : calls[k].bone = boneName}}

LeftArm == {"LeftUpperArm", "LeftLowerArm", "LeftHand"}

\* C17 as stated: in the thinking and in the speaking state the three
\* left-arm joints have the targets they have when idle.
C17_LeftArmAsIdle ==
  (last.driver = "vrm" /\ last.state \in {"thinking", "speaking"}) =>
    \A j \in LeftArm :
      TargetsOf(last.state, last.t, j) = TargetsOf("idle", last.t, j)

\* C17, amended: in the idle, thinking and speaking states the upper and
\* the lower left arm move from rest toward the same targets, (0, 0, 0.9)
\* and (0, 1.4, 0), by 0.05; the left hand is targeted at (0.2, -0.2, 0.5)
\* when idle, at (0, -0.5, 0.5) when thinking and is not written when
\* speaking.
C17_UpperAndLowerLeftArmAsIdle ==
  (last.driver = "vrm" /\ last.state \in {"idle", "thinking", "speaking"}) =>
    /\ \A j \in {"LeftUpperArm", "LeftLowerArm"} \cap humanoid :
         LET target == IF j = "LeftUpperArm" THEN <<0, 0, R(900)>>
                       ELSE <<0, R(1400), 0>>
         IN /\ TargetsOf(last.state, last.t, j) = {target}
            /\ \A a \in Axes :
                 rotation[j][a] = TDiv(target[a] * 50, 1000)
    /\ TargetsOf(last.state, last.t, "LeftHand") =
         (IF last.state = "idle" THEN {<<R(200), R(-200), R(500)>>}
          ELSE IF last.state = "thinking" THEN {<<0, R(-500), R(500)>>}
          ELSE {})
    /\ last.state = "speaking" => "LeftHand" \notin last.written

\* A thinking frame after an idle one: the upper left arm is at 0.045 after
\* both, and the left hand, tilted by the idle frame, is at the first step
\* toward the thinking target.
C17_Witness ==
  /\ last.driver = "vrm" /\ last.state = "thinking" /\ humanoid = Joints
  /\ prev.rotation["LeftUpperArm"] = <<0, 0, R(45)>>
  /\ rotation["LeftUpperArm"] = <<0, 0, R(45)>>
  /\ prev.rotation["LeftHand"] = <<R(10), R(-10), R(25)>>
  /\ rotation["LeftHand"] = <<0, R(-25), R(25)>>

\* C19 as stated: while the source most recently started (the one in
\* sourceRef) is playing, audioState.isPlaying is true, whatever 'ended'
\* events of earlier sources are dispatched.
C19_PlayingWhileLatestSourcePlays ==
  (sourceRef # 0 /\ sources[sourceRef] = "playing") => audioState.isPlaying

\* C20: a call of handleSendMessage sets isProcessing when it starts, every
\* way out of it clears isProcessing, and every call gets out.
C20_ProcessingCleared ==
  /\ [][\A i \in SourceIds :
         /\ (pc[i] = "none" /\ pc'[i] # "none") => isProcessing'
         /\ (pc[i] \in InFlight /\ pc'[i] \in Returned) => ~isProcessing']_vars
  /\ []((\A i \in SourceIds : pc[i] \notin InFlight) => ~isProcessing)
  /\ []((\E i \in SourceIds : pc[i] \in InFlight) =>
          <>((\A i \in SourceIds : pc[i] \notin InFlight) /\ ~isProcessing))

\* A call that failed at decodeAudioData is over and isProcessing is false.
C20_Witness ==
  /\ sends > 0 /\ pc[sends] = "decodeFailed" /\ ~isProcessing
  /\ messages[Len(messages)].text = "(Audio playback failed: Check API Key or format)"

\* C25: whatever came before, a rig frame run with isPlaying false can set
\* 'blink' to 1: no count of frames has to pass after a blink.
C25_BlinkAlwaysEnabled ==
  (mounted = "vrm" /\ expressionManager /\ ~audioState.isPlaying
     /\ frames < MaxDecayFrames) =>
    ENABLED (DecayRigFrame /\ blink' = Scale)

\* Two silent frames in a row each set 'blink' to 1.
C25_Witness ==
  /\ last.driver = "vrm" /\ expressionManager /\ silentFrames >= 2
  /\ prev.blink = Scale /\ last.isBlinking /\ blink = Scale

\* C26: a rig frame that samples the analyser and finds a voice energy of
\* 0.6 or less leaves 'blink' as it was, whatever the random trigger would
\* have been: a blink of 1 left by the last silent frame stays at 1.
C26_QuietSpeechKeepsBlink ==
  (last.driver = "vrm" /\ last.audio.isPlaying /\ last.audio.analyser
     /\ last.volume <= R(600)) =>
    /\ last.sampled
    /\ blink = prev.blink
    /\ ~last.isBlinking

\* A silent frame blinked, and the quiet sampled frame after it left the
\* eye closed.
C26_Witness ==
  /\ last.driver = "vrm" /\ expressionManager /\ last.sampled
  /\ last.volume > 0 /\ last.volume <= R(600)
  /\ prev.blink = Scale /\ blink = Scale /\ frames = 2

\* The double next above x.
NextUp(x) == Double(BigAdd(x.m, <<1>>), x.e)

\* C27 as stated: the vertical scale of the fallback shape, 1 at the start,
\* stays in [1, 1.5] whatever the frames sample.
C27_VerticalScaleBounded ==
  mounted = "default" =>
    /\ DoubleCmp(One, scaleY) <= 0
    /\ DoubleCmp(scaleY, Literal(15)) <= 0

\* C27, amended: the vertical scale of the fallback shape, 1 at the start,
\* stays at or above 1 and at or below the double next above 1.5
\* (1.5 + 2^-52), whatever the frames sample, so it is positive and
\* 1 / sqrt(scale.y) is defined.
C27_VerticalScaleWithinRounding ==
  mounted = "default" =>
    /\ DoubleCmp(One, scaleY) <= 0
    /\ DoubleCmp(scaleY, NextUp(Literal(15))) <= 0
    /\ scale[2] >= Scale

\* Full volume held for every frame of the run: the scale has reached the
\* double next above 1.5 and a further sampled frame leaves it there.
C27_Witness ==
  /\ last.driver = "default" /\ last.sampled
  /\ frames = MaxShapeFrames
  /\ prev.scaleY = NextUp(Literal(15))
  /\ scaleY = prev.scaleY

\* The turns of a sequence of messages: who spoke (the user or not) and
\* what, the system instruction left out.
Turns(msgs) ==
  LET spoken == SelectSeq(msgs, LAMBDA m : m.role # "system")
  IN [k \in 1..Len(spoken) |-> <<spoken[k].role = "user", spoken[k].text>>]

\* C23 as stated: the request a call of handleSendMessage has
\* generateTextResponse build carries, as its history, the transcript as it
\* was before the call, and, as the new message, the prompt, once.
C23_PromptSentOnce ==
  [][\A i \in SourceIds :
       (pc[i] = "none" /\ pc'[i] = "text") =>
         /\ Turns(requests'[i].history) = Turns(messages)
         /\ requests'[i].sent = << Message("user", prompts'[i]) >>]_vars

Reply == Message("model", "responseText")
Sorry == Message("model", "Sorry, I encountered an error.")

\* The texts that start with "Sorry, I encountered an error.": that text,
\* alone or followed by a blank and the message of an Error.
SorryTexts ==
  {"Sorry, I encountered an error."} \cup
  {"Sorry, I encountered an error. " \o e.message :
     e \in TextErrors \cup SpeechErrors}

\* The transcript with every such text cut down to its start.
Starts(msgs) ==
  [k \in DOMAIN msgs |->
     IF msgs[k].role = "model" /\ msgs[k].text \in SorryTexts THEN Sorry
     ELSE msgs[k]]
AudioFailed == Message("model", "(Audio playback failed: Check API Key or format)")

\* What a call that returned by the given way has appended; afterSpeech is
\* what a failed speech synthesis leaves after the user's message.
BlockOf(way, text, afterSpeech) ==
  IF way = "none" THEN << >>
  ELSE << Message("user", text) >> \o
       (IF way = "textFailed" THEN << Sorry >>
        ELSE IF way = "speechFailed" THEN afterSpeech
        ELSE IF way = "decodeFailed" THEN << Reply, AudioFailed >>
        ELSE << Reply >>)

RECURSIVE Transcript(_, _)
\* The blocks of the calls 1..n, in order.
Transcript(n, afterSpeech) ==
  IF n = 0 THEN << >>
  ELSE Transcript(n - 1, afterSpeech) \o BlockOf(pc[n], prompts[n], afterSpeech)

NoCallInFlight == \A i \in SourceIds : pc[i] \notin InFlight

Grows == Len(messages') >= Len(messages)
           /\ SubSeq(messages', 1, Len(messages)) = messages

\* C24 as stated: the transcript only grows, and once the calls have
\* returned it is, call after call, the user's message followed by the
\* reply (and the audio-failure notice after a failed decode), or by the
\* single message starting with "Sorry, I encountered an error." after a
\* failed text generation or speech synthesis.
C24_TranscriptAsStated ==
  /\ [][Grows]_vars
  /\ [](NoCallInFlight =>
         Starts(messages) = Transcript(MaxSends, << Sorry >>))

\* C24, amended: as stated, except that a failed speech synthesis leaves
\* the reply, appended before the synthesis was asked for, followed by the
\* error message.
C24_TranscriptBlocks ==
  /\ [][Grows]_vars
  /\ [](NoCallInFlight =>
         Starts(messages) = Transcript(MaxSends, << Reply, Sorry >>))

\* Three calls have returned: the speech synthesis failed, then the decode
\* failed, then the text generation failed.
C24_Witness ==
  /\ sends = 3 /\ NoCallInFlight
  /\ pc[1] = "speechFailed" /\ pc[2] = "decodeFailed" /\ pc[3] = "textFailed"
  /\ Len(messages) = 8
  /\ messages[3].text = "Sorry, I encountered an error. ElevenLabs API Error"
  /\ messages[8].text = "Sorry, I encountered an error. Failed to fetch"

\* The calls of handleSendMessage that have not returned.
CallsInFlight == {i \in SourceIds : pc[i] \in InFlight}

\* A step that is the event `name` of the interface.
IsEvent(name) == uiLast'.n # uiLast.n /\ uiLast'.event = name

\* C21: handleSubmit calls onSendMessage, with the input as it stands, only
\* when the trimmed input is non-empty and no call is being processed, and
\* nothing else calls it; a submit that is not accepted leaves the input, the
\* typing flag, the timer and the transcript as they were; at most one call
\* of handleSendMessage is in flight at any time.
C21_SubmitGuard ==
  /\ [][IsEvent("submit") =>
          /\ trim(input) # << >>
          /\ ~isProcessing
          /\ sends' = sends + 1
          /\ messages' = Append(messages, Message("user", input))]_vars
  /\ [][sends' # sends => IsEvent("submit")]_vars
  /\ [][IsEvent("submitRejected") =>
          /\ trim(input) = << >> \/ isProcessing
          /\ UNCHANGED <<input, isUserTyping, typingTimeoutRef, timers,
                         sends, pc, messages, isProcessing>>]_vars
  /\ [](Cardinality(CallsInFlight) <= 1)

\* A submit was rejected while a call was in flight.
C21_Witness ==
  /\ uiLast.event = "submitRejected"
  /\ isProcessing
  /\ Cardinality(CallsInFlight) = 1
  /\ Len(messages) = 1

\* The pending timeouts of handleInputChange.
TypingTimers == {t \in timers : t.kind = "typing"}

\* C22: every input change reports typing = true and replaces the pending
\* inactivity timer, so at most one is pending, and it is the one of the last
\* change, due one delay after it; typing = false is reported by the timer
\* exactly one delay after the last change, and is reported eventually; an
\* accepted submit reports typing = false and leaves no timer pending, so no
\* timer of an earlier change fires after it.
C22_TypingTimer ==
  /\ [](Cardinality(TypingTimers) <= 1)
  /\ [](\A t \in TypingTimers :
          /\ t.id = typingTimeoutRef
          /\ changedAt >= 0
          /\ t.due = changedAt + TypingDelay
          /\ now <= t.due
          /\ isUserTyping)
  /\ [][IsEvent("change") =>
          /\ isUserTyping'
          /\ TypingTimers' = {[id |-> nextTimer, due |-> now + TypingDelay,
                               kind |-> "typing"]}]_vars
  /\ [][(TypingTimers' # TypingTimers /\ uiLast'.n = uiLast.n) =>
          /\ changedAt >= 0
          /\ now = changedAt + TypingDelay
          /\ TypingTimers' = {}
          /\ ~isUserTyping']_vars
  /\ [][IsEvent("submit") =>
          /\ ~isUserTyping'
          /\ TypingTimers' = {}
          /\ changedAt' = -1]_vars
  /\ [](isUserTyping => <>(~isUserTyping))

\* Two changes half a delay apart: the timer of the first was replaced and
\* the timer of the second has fired, one delay after the second change.
C22_Witness ==
  /\ uiLast.event = "typingTimer"
  /\ uiLast.n = 2
  /\ modelUrl = 0
  /\ nextTimer = 3
  /\ changedAt = TypingDelay \div 2
  /\ now = changedAt + TypingDelay
  /\ ~isUserTyping

\* C28: handleFileChange forwards the first file to onModelUpload exactly
\* when there is one and its name ends with ".vrm"; otherwise the model URL,
\* the model status and the timeouts stay as they were; and nothing else
\* changes the model URL.
C28_OnlyVrmUploaded ==
  /\ [][(uiLast'.n # uiLast.n /\ uiLast'.event \in {"file", "fileRejected"}) =>
          LET files == uiLast'.files
              name == files[1].name
          IN IF /\ Len(files) > 0
                /\ Len(name) >= 4
                /\ name[Len(name) - 3] = "."
                /\ name[Len(name) - 2] = "v"
                /\ name[Len(name) - 1] = "r"
                /\ name[Len(name)] = "m"
               THEN /\ uiLast'.event = "file"
                    /\ modelStatus' = "LOADING"
                    /\ modelUrl' # modelUrl
               ELSE /\ uiLast'.event = "fileRejected"
                    /\ UNCHANGED <<modelUrl, modelStatus, timers>>]_vars
  /\ [][modelUrl' # modelUrl => IsEvent("file")]_vars

\* A file named a.VRM was refused while the model uploaded before it loads.
C28_Witness ==
  /\ uiLast.event = "fileRejected"
  /\ uiLast.files = <<[name |-> <<"a", ".", "V", "R", "M">>]>>
  /\ modelUrl = 1
  /\ modelStatus = "LOADING"

====
